---- MODULE Spec2Model ----
(***************************************************************************)
(* Model of the WebSocket client of the tauri-mcp server                   *)
(* (packages/server/src/client.ts): the module-level clientState, the      *)
(* sockets it creates, the pending-request map with its deadline timers,   *)
(* the keep-alive interval and the reconnect timer chain.                  *)
(*                                                                         *)
(* Every socket created by connect() registers the same handlers           *)
(* (handleMessage, handleClose), and these read the module-level            *)
(* clientState, not the socket that emitted the event.  Sockets, timers     *)
(* and intervals are therefore modelled as objects of their own, which      *)
(* live on after clientState stops referring to them.                      *)
(***************************************************************************)
EXTENDS Integers, Sequences, FiniteSets, TLC

\* ------------------------------------------------------------------ bounds
MaxSockets == 2
MaxReq == 2
MaxTimers == 1
MaxIntervals == 1
AttemptCap == 4
RandomSpace == 2
MaxClock == 2
MaxEnvelopes == 2
MaxEnvelopeId == 2
MaxCalls == 2
MaxCaptured == 1002
VariedCalls == 2
MaxDepth == 22
MaxBranch == 2

\* ------------------------------------------------------- program constants
maxReconnectAttempts == 3
reconnectDelayMs == 1000
defaultTimeout == 10000

Hosts == {"localhost"}
Ports == {9223}
Commands == {"echo"}
Timeouts == {defaultTimeout}

\* command names and per-request timeouts callers pass to sendCommand, used
\* where the requests themselves are the subject
CommandNames == {"echo", "screenshot"}
TimeoutValues == {1000, defaultTimeout}

ErrConnectionClosed == "Connection closed"
ErrDisconnected == "Disconnected"
ErrTimeout == "Request timed out"
ErrSend == "send error"
ErrNotConnected == "Not connected"

VARIABLES clientState, sockets, requests, reconnectTimers, pingIntervals,
          remoteUp, autoAttempts

\* the remote dispatcher with its windows, the tool call being served by
\* the MCP server, the console capture buffer of a webview and the wait_for
\* call running in a webview
VARIABLES remote, toolCall, console, waitFor

\* the document of a webview and the structure snapshot taken of it
VARIABLES dom

clientVars == <<clientState, sockets, requests, reconnectTimers,
                pingIntervals, remoteUp, autoAttempts>>

pluginVars == <<remote, toolCall, console, waitFor, dom>>

vars == <<clientState, sockets, requests, reconnectTimers, pingIntervals,
          remoteUp, autoAttempts, remote, toolCall, console, waitFor, dom>>

\* ------------------------------------------------------------ state shapes
\* clientState = null
NullState ==
  [null |-> TRUE, ws |-> 0, host |-> "", port |-> 0, pendingRequests |-> {},
   reconnectAttempts |-> 0, shouldReconnect |-> FALSE, pingInterval |-> 0,
   reconnectTimeout |-> 0]

\* the object literal assigned to clientState in connect()
NewClientState(s, host, port) ==
  [null |-> FALSE, ws |-> s, host |-> host, port |-> port,
   pendingRequests |-> {}, reconnectAttempts |-> 0, shouldReconnect |-> TRUE,
   pingInterval |-> 0, reconnectTimeout |-> 0]

\* a socket slot that holds no socket (never created, or closed and released)
FreeSocket ==
  [readyState |-> "FREE", host |-> "", port |-> 0, connectPromise |-> "none",
   planned |-> FALSE, probe |-> "none"]

FreeTimer == [armed |-> FALSE, host |-> "", port |-> 0, delay |-> 0]

\* the optional error field of a response envelope
NoError == [present |-> FALSE, text |-> ""]
ErrorText(text) == [present |-> TRUE, text |-> text]

\* how a request's promise was settled; message is the text of the Error
\* object, as the sequence of its parts; success and remoteError are the
\* fields of the response the promise resolved with
NoOutcome ==
  [kind |-> "none", error |-> "", message |-> <<>>, id |-> 0, data |-> <<>>,
   success |-> FALSE, remoteError |-> NoError]

Rejected(err) ==
  [kind |-> "rejected", error |-> err, message |-> <<err>>, id |-> 0,
   data |-> <<>>, success |-> FALSE, remoteError |-> NoError]

\* new Error(`Request timed out after ${timeoutMs}ms`)
TimeoutErrorDefault(timeoutMs) ==
  [Rejected(ErrTimeout) EXCEPT
     !.message = <<"Request timed out after ", ToString(defaultTimeout), "ms">>]

TimeoutError(timeoutMs) ==
  [Rejected(ErrTimeout) EXCEPT
     !.message = <<"Request timed out after ", ToString(timeoutMs), "ms">>]

Resolved(message) ==
  [kind |-> "resolved", error |-> "", message |-> <<>>, id |-> message.id,
   data |-> message.data, success |-> message.success,
   remoteError |-> message.error]

\* the program state the handlers work on, as one value
World ==
  [cs |-> clientState, sockets |-> sockets, requests |-> requests,
   rtimers |-> reconnectTimers, intervals |-> pingIntervals]

\* ---------------------------------------------------------------- helpers
FreeSocketSlots(w) == {s \in 1..MaxSockets : w.sockets[s].readyState = "FREE"}
FreeTimerSlots(w) == {t \in 1..MaxTimers : ~w.rtimers[t].armed}
FreeIntervalSlots(w) == {i \in 1..MaxIntervals : ~w.intervals[i]}

MinOf(S) == CHOOSE x \in S : \A y \in S : x <= y

\* clientState?.ws?.readyState === WebSocket.OPEN
isConnectedAnyState(w) ==
  /\ ~w.cs.null
  /\ w.cs.ws # 0

isConnected(w) ==
  /\ ~w.cs.null
  /\ w.cs.ws # 0
  /\ w.sockets[w.cs.ws].readyState = "OPEN"

\* `req_${Date.now()}_${Math.random().toString(36).slice(2, 11)}`: the
\* clock reading and the leading digits of the random number, as one number
Suffix(random) == random \div 2

RequestId(now, random) == now * RandomSpace + Suffix(random)

\* the id sendCommand gets when the clock and the random number of the call
\* differ from those of every earlier call
generateRequestId(w) == Len(w.requests) + 1

\* pendingRequests holds the requests that have an entry in the Map; the
\* key of an entry is the id of its request.  The entries under one key:
Entries(w, id) == {p \in w.cs.pendingRequests : w.requests[p].id = id}

\* settling a promise: resolve/reject act only on a promise still pending
SettleAlways(req, out) ==
  [req EXCEPT !.outcome = out, !.completions = @ + 1]

Settle(req, out) ==
  IF req.completions = 0
    THEN [req EXCEPT !.outcome = out, !.completions = 1]
    ELSE req

\* clearTimeout(pending.timeout) of one request
ClearDeadline(req) == [req EXCEPT !.timer = FALSE]

\* the loop "for (const [id, pending] of clientState.pendingRequests)":
\* cancel the timer, reject, delete the entry
RejectAllSilently(w, err) ==
  [w EXCEPT !.requests =
              [r \in DOMAIN w.requests |->
                 IF r \in w.cs.pendingRequests
                   THEN ClearDeadline(w.requests[r])
                   ELSE w.requests[r]],
            !.cs.pendingRequests = {}]

RejectAllKeep(w, err) ==
  [w EXCEPT !.requests =
              [r \in DOMAIN w.requests |->
                 IF r \in w.cs.pendingRequests
                   THEN Settle(ClearDeadline(w.requests[r]), Rejected(err))
                   ELSE w.requests[r]]]

RejectAllPending(w, err) ==
  [w EXCEPT !.requests =
              [r \in DOMAIN w.requests |->
                 IF r \in w.cs.pendingRequests
                   THEN Settle(ClearDeadline(w.requests[r]), Rejected(err))
                   ELSE w.requests[r]],
            !.cs.pendingRequests = {}]

\* clearInterval(clientState.pingInterval); clientState.pingInterval = null
ClearPing(w) ==
  IF w.cs.pingInterval # 0
    THEN [w EXCEPT !.intervals[w.cs.pingInterval] = FALSE,
                   !.cs.pingInterval = 0]
    ELSE w

\* ws.close() of the ws library: no 'close' event is emitted synchronously
SocketClose(sock) ==
  IF sock.readyState = "CONNECTING"
    THEN [sock EXCEPT !.readyState = "CLOSING", !.planned = TRUE,
                      !.connectPromise = "rejected"]
    ELSE IF sock.readyState = "OPEN"
      THEN [sock EXCEPT !.readyState = "CLOSING", !.planned = TRUE,
                        !.probe = "none"]
      ELSE sock

\* ----------------------------------------------------- internal handlers
\* handleMessage: JSON.parse, look the id up, clear the timer, delete, resolve
LookupAny(w, message) ==
  IF w.cs.pendingRequests # {} THEN {MinOf(w.cs.pendingRequests)} ELSE {}

Lookup(w, message) ==
  IF message.id # 0 THEN Entries(w, message.id) ELSE {}

handleMessageStrict(w, message) ==
  IF w.cs.null THEN w
  ELSE IF ~message.json THEN RejectAllPending(w, ErrConnectionClosed)
  ELSE IF Lookup(w, message) = {}
    THEN RejectAllPending(w, ErrConnectionClosed)
  ELSE LET r == CHOOSE x \in Lookup(w, message) : TRUE
       IN [w EXCEPT !.requests[r] =
                      Settle(ClearDeadline(w.requests[r]), Resolved(message)),
                    !.cs.pendingRequests = @ \ {r}]

handleMessage(w, message) ==
  IF w.cs.null THEN w
  ELSE IF ~message.json THEN w
  ELSE IF Lookup(w, message) = {} THEN w
  ELSE LET r == CHOOSE x \in Lookup(w, message) : TRUE
       IN [w EXCEPT !.requests[r] =
                      Settle(ClearDeadline(w.requests[r]), Resolved(message)),
                    !.cs.pendingRequests = @ \ {r}]

\* the "Auto-reconnect if enabled" block of handleClose
WillReconnectInverted(w) ==
  /\ ~w.cs.null
  /\ w.cs.shouldReconnect
  /\ w.cs.reconnectAttempts > maxReconnectAttempts

WillReconnect(w) ==
  /\ ~w.cs.null
  /\ w.cs.shouldReconnect
  /\ w.cs.reconnectAttempts < maxReconnectAttempts

ScheduleReconnect(w) ==
  IF WillReconnect(w)
    THEN LET n == w.cs.reconnectAttempts + 1
             t == MinOf(FreeTimerSlots(w))
         IN [w EXCEPT !.cs.reconnectAttempts = n,
                      !.cs.reconnectTimeout = t,
                      !.rtimers[t] = [armed |-> TRUE, host |-> w.cs.host,
                                      port |-> w.cs.port,
                                      delay |-> reconnectDelayMs * n]]
    ELSE w

handleCloseNoReject(w) ==
  IF w.cs.null THEN w
  ELSE ScheduleReconnect([ClearPing(w) EXCEPT !.cs.ws = 0])

handleClose(w) ==
  IF w.cs.null THEN w
  ELSE ScheduleReconnect(
         [RejectAllPending(ClearPing(w), ErrConnectionClosed)
            EXCEPT !.cs.ws = 0])

startPingInterval(w) ==
  IF w.cs.null \/ w.cs.pingInterval # 0 THEN w
  ELSE LET i == MinOf(FreeIntervalSlots(w))
       IN [w EXCEPT !.intervals[i] = TRUE, !.cs.pingInterval = i]

\* ws.ping(): a ping frame is written; "missed" is a probe written while the
\* pong of the one before it has still not arrived
Ping(sock) ==
  [sock EXCEPT !.probe = IF @ = "none" THEN "sent" ELSE "missed"]

\* the setInterval callback of startPingInterval
onPingTick(w) ==
  IF isConnected(w)
    THEN [w EXCEPT !.sockets[w.cs.ws] = Ping(@)]
    ELSE w

\* the ws.on("open") callback of the socket s created by connect()
onOpenResend(w, s) ==
  LET w1 == IF ~w.cs.null THEN [w EXCEPT !.cs.reconnectAttempts = 0] ELSE w
      w2 == startPingInterval(w1)
      lost == {r \in DOMAIN w.requests :
                 w.requests[r].outcome.error = ErrConnectionClosed}
  IN [w2 EXCEPT !.sockets[s].connectPromise = "resolved",
                !.requests = [r \in DOMAIN w.requests |->
                                IF r \in lost
                                  THEN [w.requests[r] EXCEPT
                                          !.writes = @ + 1, !.sock = s,
                                          !.net = "sending"]
                                  ELSE w.requests[r]]]

onOpen(w, s) ==
  LET w1 == IF ~w.cs.null THEN [w EXCEPT !.cs.reconnectAttempts = 0] ELSE w
      w2 == startPingInterval(w1)
  IN [w2 EXCEPT !.sockets[s].connectPromise = "resolved"]

\* ------------------------------------------------------------- public API
disconnectWrongError(w) ==
  IF w.cs.null THEN w
  ELSE LET w1 == IF w.cs.reconnectTimeout # 0
                   THEN [w EXCEPT !.rtimers[w.cs.reconnectTimeout] = FreeTimer,
                                  !.cs.reconnectTimeout = 0]
                   ELSE w
           w2 == ClearPing(w1)
           w3 == IF w2.cs.ws # 0
                   THEN [w2 EXCEPT !.sockets[w2.cs.ws] = SocketClose(@),
                                   !.cs.ws = 0]
                   ELSE w2
           w4 == RejectAllPending(w3, ErrConnectionClosed)
       IN [w4 EXCEPT !.cs = NullState]

disconnect(w) ==
  IF w.cs.null THEN w
  ELSE LET w0 == [w EXCEPT !.cs.shouldReconnect = FALSE]
           w1 == IF w0.cs.reconnectTimeout # 0
                   THEN [w0 EXCEPT !.rtimers[w0.cs.reconnectTimeout] = FreeTimer,
                                   !.cs.reconnectTimeout = 0]
                   ELSE w0
           w2 == ClearPing(w1)
           w3 == IF w2.cs.ws # 0
                   THEN [w2 EXCEPT !.sockets[w2.cs.ws] = SocketClose(@),
                                   !.cs.ws = 0]
                   ELSE w2
           w4 == RejectAllPending(w3, ErrDisconnected)
       IN [w4 EXCEPT !.cs = NullState]

\* "If already connected to same host/port, reuse"
ReusesWhileConnecting(w, host, port) ==
  /\ ~w.cs.null
  /\ w.cs.ws # 0
  /\ w.sockets[w.cs.ws].readyState = "CONNECTING"
  /\ w.cs.host = host
  /\ w.cs.port = port

Reuses(w, host, port) ==
  /\ isConnected(w)
  /\ w.cs.host = host
  /\ w.cs.port = port

\* a connect() that replaces the client state without disconnect()
connectReplaces(w, host, port) ==
  IF Reuses(w, host, port) THEN w
  ELSE LET s == MinOf(FreeSocketSlots(w))
       IN [w EXCEPT !.sockets[s] =
                      [readyState |-> "CONNECTING", host |-> host,
                       port |-> port, connectPromise |-> "pending",
                       planned |-> FALSE, probe |-> "none"],
                    !.cs = NewClientState(s, host, port)]

connect(w, host, port) ==
  IF Reuses(w, host, port) THEN w
  ELSE LET w1 == IF ~w.cs.null /\ w.cs.ws # 0 THEN disconnect(w) ELSE w
           s == MinOf(FreeSocketSlots(w1))
       IN [w1 EXCEPT !.sockets[s] =
                       [readyState |-> "CONNECTING", host |-> host,
                        port |-> port, connectPromise |-> "pending",
                        planned |-> FALSE, probe |-> "none"],
                     !.cs = NewClientState(s, host, port)]

\* the body of sendCommand once the not-connected check has passed
sendCommandWithId(w, id, command, timeoutMs) ==
  LET r == Len(w.requests) + 1
  IN [w EXCEPT !.requests =
                 Append(@, [id |-> id, command |-> command,
                            timeoutMs |-> timeoutMs, timer |-> TRUE,
                            sock |-> w.cs.ws, net |-> "sending",
                            writes |-> 1,
                            outcome |-> NoOutcome, completions |-> 0]),
               !.cs.pendingRequests = (@ \ Entries(w, id)) \cup {r}]

sendCommand(w, command, timeoutMs) ==
  sendCommandWithId(w, generateRequestId(w), command, timeoutMs)

\* sendCommand on a session that is not Open: the async function throws, its
\* promise is rejected and nothing else happens
sendCommandNotConnected(w, command, timeoutMs) ==
  [w EXCEPT !.requests =
              Append(@, [id |-> 0, command |-> command,
                         timeoutMs |-> timeoutMs, timer |-> FALSE,
                         sock |-> 0, net |-> "done", writes |-> 0,
                         outcome |-> Rejected(ErrNotConnected),
                         completions |-> 1])]

\* the setTimeout callback of sendCommand
onDeadlineFailsAll(w, r) ==
  RejectAllPending(w, ErrTimeout)

onDeadline(w, r) ==
  LET w1 == [w EXCEPT !.requests[r].timer = FALSE]
      w2 == IF ~w1.cs.null
              THEN [w1 EXCEPT !.cs.pendingRequests =
                                @ \ Entries(w, w.requests[r].id)]
              ELSE w1
  IN [w2 EXCEPT !.requests[r] =
                  Settle(@, TimeoutError(w.requests[r].timeoutMs))]

\* the callback passed to ws.send, called with an error
onSendErrorReconnects(w, r) ==
  LET w1 == [w EXCEPT !.requests[r] = ClearDeadline(@)]
      w2 == IF ~w1.cs.null
              THEN [w1 EXCEPT !.cs.pendingRequests =
                                @ \ Entries(w, w.requests[r].id)]
              ELSE w1
  IN handleClose([w2 EXCEPT !.requests[r] = Settle(@, Rejected(ErrSend))])

\* a send callback that leaves the deadline timer of the request armed
onSendErrorKeepsTimer(w, r) ==
  LET w2 == IF ~w.cs.null
              THEN [w EXCEPT !.cs.pendingRequests =
                               @ \ Entries(w, w.requests[r].id)]
              ELSE w
  IN [w2 EXCEPT !.requests[r] = Settle(@, Rejected(ErrSend))]

onSendError(w, r) ==
  LET w1 == [w EXCEPT !.requests[r] = ClearDeadline(@)]
      w2 == IF ~w1.cs.null
              THEN [w1 EXCEPT !.cs.pendingRequests =
                                @ \ Entries(w, w.requests[r].id)]
              ELSE w1
  IN [w2 EXCEPT !.requests[r] = Settle(@, Rejected(ErrSend))]

\* the setTimeout callback armed by handleClose, with its captured host/port
onReconnectTimerNoCheck(w, t) ==
  LET w1 == [w EXCEPT !.rtimers[t] = FreeTimer]
      w2 == IF w1.cs.null THEN w1 ELSE [w1 EXCEPT !.cs.reconnectTimeout = 0]
  IN connect(w2, w.rtimers[t].host, w.rtimers[t].port)

onReconnectTimer(w, t) ==
  LET w1 == [w EXCEPT !.rtimers[t] = FreeTimer]
  IN IF w1.cs.null THEN w1
     ELSE connect([w1 EXCEPT !.cs.reconnectTimeout = 0],
                  w.rtimers[t].host, w.rtimers[t].port)

\* the response envelope the remote dispatcher emits for a request envelope
Response(request) ==
  [json |-> TRUE, id |-> request.id, success |-> TRUE,
   data |-> <<request.command, request.id>>, error |-> NoError]

\* the response envelope for a request the remote side could not serve;
\* the error text is optional in the envelope
ErrorResponse(request, error) ==
  [json |-> TRUE, id |-> request.id, success |-> FALSE, data |-> <<>>,
   error |-> error]

\* inbound data that answers no request: text that is not JSON, an envelope
\* without an id, an envelope with an id the client never issued
Garbage ==
  [json |-> FALSE, id |-> 0, success |-> FALSE, data |-> <<>>,
   error |-> NoError]
NoIdEnvelope ==
  [json |-> TRUE, id |-> 0, success |-> TRUE, data |-> <<>>,
   error |-> NoError]
ForeignEnvelope ==
  [json |-> TRUE, id |-> MaxReq + 1, success |-> TRUE, data |-> <<>>,
   error |-> NoError]

\* the responses socket s has delivered already, which it may deliver again
Duplicates(w, s) ==
  {Response(w.requests[r]) :
     r \in {x \in DOMAIN w.requests :
              /\ w.requests[x].sock = s
              /\ w.requests[x].net = "answered"}}

\* emitClose of the ws library: the socket is gone, nothing written to it
\* can be answered any more
ReleaseSocket(w, s) ==
  [w EXCEPT !.sockets[s] = FreeSocket,
            !.requests =
              [r \in DOMAIN w.requests |->
                 IF w.requests[r].sock = s
                   THEN [w.requests[r] EXCEPT
                           !.sock = 0,
                           !.net = IF @ \in {"sent", "answered"}
                                    THEN "done" ELSE @]
                   ELSE w.requests[r]]]

\* ------------------------------------------------ remote side: shapes
\* an envelope without a window id, and no window holding the focus
NoTarget == ""
NoFocus == ""

\* the labels windows of the application can have, and a label no window
\* ever has
Labels == {"main", "about"}
Targets == Labels \cup {"settings"}

\* the commands envelopes name; they are opaque to the dispatcher
RemoteCommands == {"execute_js"}

\* the dispatcher's view before any envelope arrived: windows in enumeration
\* order, the focused one, the envelopes received on the connection and the
\* responses written to it
RemoteIdle ==
  [windows |-> <<"main">>, focused |-> "main", envelopes |-> <<>>,
   outbox |-> <<>>, connected |-> TRUE]

\* the MCP server has served no tool call yet
\* now is the time, in ms, the timed tool calls are followed at
ToolCallIdle == [calls |-> <<>>, now |-> 0]

\* logs = [] of console_capture.js; calls is the history of all captured
\* entries
ConsoleIdle == [logs |-> <<>>, calls |-> <<>>]

\* an argument the caller left out
Undefined == -1

\* no wait_for call is running in the page; the element the calls ask for
\* is absent and so is the text; everSatisfied tells whether the condition
\* of the call has been true at any moment since the call began
WaitForIdle ==
  [phase |-> "idle",
   args |-> [type |-> "", value |-> "", timeout |-> Undefined],
   page |-> [element |-> "absent", text |-> FALSE],
   observer |-> "none", timer |-> "none", message |-> <<>>,
   everSatisfied |-> FALSE]

\* the document is a chain of spine elements below the root (the root is
\* spine element 0), with a chain of branch elements hanging from spine
\* element `at`; lines is the snapshot taken, if any
DomIdle ==
  [spine |-> 0, at |-> 0, branch |-> 0, taken |-> FALSE, lines |-> <<>>]

PluginIdle ==
  /\ remote = RemoteIdle
  /\ toolCall = ToolCallIdle
  /\ console = ConsoleIdle
  /\ waitFor = WaitForIdle
  /\ dom = DomIdle

\* ----------------------------------------------------------------- steps
Init ==
  /\ clientState = NullState
  /\ sockets = [s \in 1..MaxSockets |-> FreeSocket]
  /\ requests = <<>>
  /\ reconnectTimers = [t \in 1..MaxTimers |-> FreeTimer]
  /\ pingIntervals = [i \in 1..MaxIntervals |-> FALSE]
  /\ remoteUp = TRUE
  /\ autoAttempts = 0
  /\ PluginIdle

\* the handlers' result becomes the next program state
Apply(w) ==
  /\ clientState' = w.cs
  /\ sockets' = w.sockets
  /\ requests' = w.requests
  /\ reconnectTimers' = w.rtimers
  /\ pingIntervals' = w.intervals

\* consecutive automatic reconnection attempts since the session was last
\* Open: an Open session ends the chain
Chain(w, n) == autoAttempts' = IF isConnected(w) THEN 0 ELSE n

\* the caller calls connect(host, port)
CallerConnect(host, port) ==
  /\ Reuses(World, host, port) \/ FreeSocketSlots(World) # {}
  /\ Apply(connect(World, host, port))
  /\ autoAttempts' = 0
  /\ UNCHANGED remoteUp
  /\ UNCHANGED pluginVars

\* the caller calls disconnect()
CallerDisconnect ==
  /\ ~clientState.null
  /\ Apply(disconnect(World))
  /\ Chain(disconnect(World), autoAttempts)
  /\ UNCHANGED remoteUp
  /\ UNCHANGED pluginVars

\* the caller calls sendCommand(command, args, timeoutMs) on an Open session
SendCommand(command, timeoutMs) ==
  /\ isConnected(World)
  /\ Len(requests) < MaxReq
  /\ Apply(sendCommand(World, command, timeoutMs))
  /\ UNCHANGED <<remoteUp, autoAttempts>>
  /\ UNCHANGED pluginVars

\* the handshake of socket s completes: 'open' is emitted
SocketOpen(s) ==
  /\ sockets[s].readyState = "CONNECTING"
  /\ remoteUp
  /\ (~clientState.null /\ clientState.pingInterval = 0)
       => FreeIntervalSlots(World) # {}
  /\ LET w == onOpen([World EXCEPT !.sockets[s].readyState = "OPEN"], s)
     IN Apply(w) /\ Chain(w, autoAttempts)
  /\ UNCHANGED remoteUp
  /\ UNCHANGED pluginVars

\* the handshake of socket s fails: 'error' (the connect promise rejects)
\* and 'close' are emitted together
ConnectFail(s) ==
  /\ sockets[s].readyState = "CONNECTING"
  /\ ~remoteUp
  /\ WillReconnect(World) => FreeTimerSlots(World) # {}
  /\ LET w == handleClose(ReleaseSocket(World, s))
     IN Apply(w) /\ Chain(w, autoAttempts)
  /\ UNCHANGED remoteUp
  /\ UNCHANGED pluginVars

\* the remote end or the network starts closing the open socket s
SocketLost(s) ==
  /\ sockets[s].readyState = "OPEN"
  /\ sockets' = [sockets EXCEPT ![s].readyState = "CLOSING",
                                ![s].probe = "none"]
  /\ Chain([World EXCEPT !.sockets[s].readyState = "CLOSING"], autoAttempts)
  /\ UNCHANGED <<clientState, requests, reconnectTimers, pingIntervals,
                 remoteUp>>
  /\ UNCHANGED pluginVars

\* socket s emits 'close'
CloseEvent(s) ==
  /\ sockets[s].readyState = "CLOSING"
  /\ WillReconnect(World) => FreeTimerSlots(World) # {}
  /\ LET w == handleClose(ReleaseSocket(World, s))
     IN Apply(w) /\ Chain(w, autoAttempts)
  /\ UNCHANGED remoteUp
  /\ UNCHANGED pluginVars

\* the caller calls sendCommand(command, args, timeoutMs) on a session that
\* is not Open
SendCommandNotConnected(command, timeoutMs) ==
  /\ ~isConnected(World)
  /\ Len(requests) < MaxReq
  /\ Apply(sendCommandNotConnected(World, command, timeoutMs))
  /\ UNCHANGED <<remoteUp, autoAttempts>>
  /\ UNCHANGED pluginVars

\* the caller calls sendCommand on an Open session while Date.now() reads
\* now and Math.random() returns random
SendCommandAt(now, random, command, timeoutMs) ==
  /\ isConnected(World)
  /\ Len(requests) < MaxReq
  /\ Apply(sendCommandWithId(World, RequestId(now, random), command,
                             timeoutMs))
  /\ UNCHANGED <<remoteUp, autoAttempts>>
  /\ UNCHANGED pluginVars

\* the ws.send callback of request r is called without an error
SendDone(r) ==
  /\ r \in DOMAIN requests
  /\ requests[r].net = "sending"
  /\ requests' = [requests EXCEPT ![r].net =
                    IF requests[r].sock = 0 THEN "done" ELSE "sent"]
  /\ UNCHANGED <<clientState, sockets, reconnectTimers, pingIntervals,
                 remoteUp, autoAttempts>>
  /\ UNCHANGED pluginVars

\* the ws.send callback of request r is called with an error
SendError(r) ==
  /\ r \in DOMAIN requests
  /\ requests[r].net = "sending"
  /\ Apply(onSendError([World EXCEPT !.requests[r].net = "done"], r))
  /\ UNCHANGED <<remoteUp, autoAttempts>>
  /\ UNCHANGED pluginVars

\* the socket request r was written to emits 'message' with its response
Message(r) ==
  /\ r \in DOMAIN requests
  /\ requests[r].net = "sent"
  /\ requests[r].sock # 0
  /\ Apply(handleMessage([World EXCEPT !.requests[r].net = "answered"],
                         Response(requests[r])))
  /\ UNCHANGED <<remoteUp, autoAttempts>>
  /\ UNCHANGED pluginVars

\* socket s emits 'message' with data that answers no request in flight
StrayMessage(s, data) ==
  /\ sockets[s].readyState = "OPEN"
  /\ data \in {Garbage, NoIdEnvelope, ForeignEnvelope} \cup Duplicates(World, s)
  /\ Apply(handleMessage(World, data))
  /\ UNCHANGED <<remoteUp, autoAttempts>>
  /\ UNCHANGED pluginVars

\* the deadline timer of request r fires
DeadlineTimeout(r) ==
  /\ r \in DOMAIN requests
  /\ requests[r].timer
  /\ Apply(onDeadline(World, r))
  /\ UNCHANGED <<remoteUp, autoAttempts>>
  /\ UNCHANGED pluginVars

\* the reconnect timer t fires
ReconnectTimer(t) ==
  /\ reconnectTimers[t].armed
  /\ \/ FreeSocketSlots(World) # {}
     \/ Reuses(World, reconnectTimers[t].host, reconnectTimers[t].port)
  /\ LET w == onReconnectTimer(World, t)
     IN /\ Apply(w)
        /\ Chain(w, IF w.sockets = sockets THEN autoAttempts
                    ELSE IF autoAttempts < AttemptCap THEN autoAttempts + 1
                    ELSE AttemptCap)
  /\ UNCHANGED remoteUp
  /\ UNCHANGED pluginVars

\* the keep-alive interval i ticks
PingTick(i) ==
  /\ pingIntervals[i]
  /\ Apply(onPingTick(World))
  /\ UNCHANGED <<remoteUp, autoAttempts>>
  /\ UNCHANGED pluginVars

\* the pong for the probes written to socket s arrives; the client has no
\* 'pong' listener
Pong(s) ==
  /\ sockets[s].readyState = "OPEN"
  /\ sockets[s].probe # "none"
  /\ sockets' = [sockets EXCEPT ![s].probe = "none"]
  /\ UNCHANGED <<clientState, requests, reconnectTimers, pingIntervals,
                 remoteUp, autoAttempts>>
  /\ UNCHANGED pluginVars

\* the remote application stops or starts listening
RemoteToggle ==
  /\ remoteUp' = ~remoteUp
  /\ UNCHANGED <<clientState, sockets, requests, reconnectTimers,
                 pingIntervals, autoAttempts>>
  /\ UNCHANGED pluginVars

Next ==
  \/ \E host \in Hosts, port \in Ports : CallerConnect(host, port)
  \/ CallerDisconnect
  \/ \E command \in Commands, timeoutMs \in Timeouts :
       SendCommand(command, timeoutMs)
  \/ \E command \in Commands, timeoutMs \in Timeouts :
       SendCommandNotConnected(command, timeoutMs)
  \/ \E s \in 1..MaxSockets : SocketOpen(s)
  \/ \E s \in 1..MaxSockets : ConnectFail(s)
  \/ \E s \in 1..MaxSockets : SocketLost(s)
  \/ \E s \in 1..MaxSockets : CloseEvent(s)
  \/ \E r \in 1..MaxReq : SendDone(r)
  \/ \E r \in 1..MaxReq : SendError(r)
  \/ \E r \in 1..MaxReq : Message(r)
  \/ \E s \in 1..MaxSockets :
       \E data \in {Garbage, NoIdEnvelope, ForeignEnvelope}
                     \cup Duplicates(World, s) : StrayMessage(s, data)
  \/ \E r \in 1..MaxReq : DeadlineTimeout(r)
  \/ \E t \in 1..MaxTimers : ReconnectTimer(t)
  \/ \E i \in 1..MaxIntervals : PingTick(i)
  \/ \E s \in 1..MaxSockets : Pong(s)
  \/ RemoteToggle

Spec == Init /\ [][Next]_vars

\* the deadline timers armed by sendCommand eventually fire
LiveSpec == Spec /\ \A r \in 1..MaxReq : WF_vars(DeadlineTimeout(r))

\* ---------------------------------------------------------------------
\* A session left to itself: connect() has resolved and the caller only
\* sends commands from then on (no connect(), no disconnect()).
InitAuto ==
  /\ \E host \in Hosts, port \in Ports :
       clientState = [NewClientState(1, host, port) EXCEPT !.pingInterval = 1]
       /\ sockets = [s \in 1..MaxSockets |->
                       IF s = 1
                         THEN [readyState |-> "OPEN", host |-> host,
                               port |-> port, connectPromise |-> "resolved",
                               planned |-> FALSE, probe |-> "none"]
                         ELSE FreeSocket]
  /\ requests = <<>>
  /\ reconnectTimers = [t \in 1..MaxTimers |-> FreeTimer]
  /\ pingIntervals = [i \in 1..MaxIntervals |-> i = 1]
  /\ remoteUp \in BOOLEAN
  /\ autoAttempts = 0
  /\ PluginIdle

NextAuto ==
  \/ \E command \in Commands, timeoutMs \in Timeouts :
       SendCommand(command, timeoutMs)
  \/ \E command \in Commands, timeoutMs \in Timeouts :
       SendCommandNotConnected(command, timeoutMs)
  \/ \E s \in 1..MaxSockets : SocketOpen(s)
  \/ \E s \in 1..MaxSockets : ConnectFail(s)
  \/ \E s \in 1..MaxSockets : SocketLost(s)
  \/ \E s \in 1..MaxSockets : CloseEvent(s)
  \/ \E r \in 1..MaxReq : SendDone(r)
  \/ \E r \in 1..MaxReq : SendError(r)
  \/ \E r \in 1..MaxReq : Message(r)
  \/ \E s \in 1..MaxSockets :
       \E data \in {Garbage, NoIdEnvelope, ForeignEnvelope}
                     \cup Duplicates(World, s) : StrayMessage(s, data)
  \/ \E r \in 1..MaxReq : DeadlineTimeout(r)
  \/ \E t \in 1..MaxTimers : ReconnectTimer(t)
  \/ \E i \in 1..MaxIntervals : PingTick(i)
  \/ \E s \in 1..MaxSockets : Pong(s)
  \/ RemoteToggle

\* socket events are delivered and armed reconnect timers fire
SpecAuto ==
  /\ InitAuto
  /\ [][NextAuto]_vars
  /\ \A s \in 1..MaxSockets :
       WF_vars(SocketOpen(s)) /\ WF_vars(ConnectFail(s)) /\ WF_vars(CloseEvent(s))
  /\ \A t \in 1..MaxTimers : WF_vars(ReconnectTimer(t))

\* ---------------------------------------------------------------------
\* The requests of one Open session: the caller sends commands with
\* different names and timeouts, and each ends by its response, its deadline
\* or its send error.
NextRequests ==
  \/ \E command \in CommandNames, timeoutMs \in TimeoutValues :
       SendCommand(command, timeoutMs)
  \/ \E r \in 1..MaxReq : SendDone(r)
  \/ \E r \in 1..MaxReq : SendError(r)
  \/ \E r \in 1..MaxReq : Message(r)
  \/ \E r \in 1..MaxReq : DeadlineTimeout(r)

SpecRequests == InitAuto /\ [][NextRequests]_vars

\* ---------------------------------------------------------------------
\* The requests of one Open session with the clock and the random numbers
\* as they come: two calls may read the same millisecond and draw random
\* numbers with the same leading digits.
NextIds ==
  \/ \E now \in 1..MaxClock, random \in 0..(2 * RandomSpace - 1),
        command \in CommandNames, timeoutMs \in Timeouts :
       SendCommandAt(now, random, command, timeoutMs)
  \/ \E r \in 1..MaxReq : SendDone(r)
  \/ \E r \in 1..MaxReq : SendError(r)
  \/ \E r \in 1..MaxReq : Message(r)
  \/ \E r \in 1..MaxReq : DeadlineTimeout(r)

SpecIds == InitAuto /\ [][NextIds]_vars

\* ---------------------------------------------------------------------
\* The remote side: the command dispatcher of the plugin and its target
\* resolver.  Envelopes arrive on the connection, each is resolved against
\* the windows that exist when it is dispatched, the command runs in the
\* resolved window and its end (a value or a raised error) is answered.
Range(seq) == {seq[i] : i \in DOMAIN seq}

\* the result of resolve: a concrete id or an explicit failure
Found(id) == [ok |-> TRUE, id |-> id, error |-> <<>>]
Failure(error) == [ok |-> FALSE, id |-> "", error |-> error]

\* the error texts of the resolver, as the sequence of their parts
NoTargetsAvailable == <<"no targets available">>
TargetNotFound(requestedId, ids) ==
  <<"Window '", requestedId, "' not found. Available: ">> \o ids

\* the set of contexts as it was when the dispatcher started
availableIdsCached(rm) == RemoteIdle.windows

\* the live set of addressable contexts, read when an envelope is dispatched
availableIds(rm) == rm.windows

\* a resolver whose default is the first context of the enumeration
resolveIgnoresFocus(requestedId, ids, focusedId) ==
  IF requestedId = NoTarget
    THEN IF Len(ids) = 0 THEN Failure(NoTargetsAvailable) ELSE Found(ids[1])
    ELSE IF requestedId \in Range(ids) THEN Found(requestedId)
         ELSE Failure(TargetNotFound(requestedId, ids))

\* resolve(requestedId | absent, availableIds, focusedId)
resolve(requestedId, ids, focusedId) ==
  IF requestedId = NoTarget
    THEN IF Len(ids) = 0 THEN Failure(NoTargetsAvailable)
         ELSE IF focusedId # NoFocus THEN Found(focusedId)
         ELSE Found(ids[1])
    ELSE IF requestedId \in Range(ids) THEN Found(requestedId)
         ELSE Failure(TargetNotFound(requestedId, ids))

\* the response envelopes; envelope is the position of the request envelope
\* in the order of arrival
SuccessResponse(e, envelope, data, context) ==
  [envelope |-> e, id |-> envelope.id, success |-> TRUE, data |-> data,
   error |-> <<>>, context |-> context]

FailureResponse(e, envelope, error) ==
  [envelope |-> e, id |-> envelope.id, success |-> FALSE, data |-> "",
   error |-> error, context |-> [targetId |-> "", totalTargets |-> 0]]

\* an inbound envelope {id, command, args} with args.window_id = target
Envelope(id, command, target) ==
  [id |-> id, command |-> command, target |-> target, status |-> "received",
   window |-> "", executed |-> FALSE]

\* how the execution of a command ends: it returns a value or raises an
\* error with a message
Returned(data) == [raised |-> FALSE, text |-> data]
Raised(message) == [raised |-> TRUE, text |-> message]
Endings == {Returned("ok"), Raised("ReferenceError: x is not defined")}

\* a dispatcher that drops an envelope whose target does not resolve
dispatchUnanswered(rm, e) ==
  LET envelope == rm.envelopes[e]
      target == resolve(envelope.target, availableIds(rm), rm.focused)
  IN IF target.ok
       THEN [rm EXCEPT !.envelopes[e].status = "running",
                       !.envelopes[e].window = target.id,
                       !.envelopes[e].executed = TRUE]
       ELSE [rm EXCEPT !.envelopes[e].status = "answered"]

\* the dispatcher takes envelope e: it resolves the target and either
\* starts the command in the resolved window or answers the failure
dispatch(rm, e) ==
  LET envelope == rm.envelopes[e]
      target == resolve(envelope.target, availableIds(rm), rm.focused)
  IN IF target.ok
       THEN [rm EXCEPT !.envelopes[e].status = "running",
                       !.envelopes[e].window = target.id,
                       !.envelopes[e].executed = TRUE]
       ELSE [rm EXCEPT !.envelopes[e].status = "answered",
                       !.outbox = Append(@, FailureResponse(e, envelope,
                                                            target.error))]

\* a dispatcher that lets a raised error close the connection
completeClosing(rm, e, ending) ==
  LET envelope == rm.envelopes[e]
  IN [rm EXCEPT
        !.envelopes[e].status = "answered",
        !.connected = ~ending.raised,
        !.outbox =
          Append(@, IF ending.raised
                      THEN FailureResponse(e, envelope, <<ending.text>>)
                      ELSE SuccessResponse(e, envelope, ending.text,
                             [targetId |-> envelope.window,
                              totalTargets |-> Len(availableIds(rm))]))]

\* the command of envelope e ends: its value or its error is answered
complete(rm, e, ending) ==
  LET envelope == rm.envelopes[e]
  IN [rm EXCEPT
        !.envelopes[e].status = "answered",
        !.outbox =
          Append(@, IF ending.raised
                      THEN FailureResponse(e, envelope, <<ending.text>>)
                      ELSE SuccessResponse(e, envelope, ending.text,
                             [targetId |-> envelope.window,
                              totalTargets |-> Len(availableIds(rm))]))]

\* an envelope arrives on the connection
Receive(id, command, target) ==
  /\ remote.connected
  /\ Len(remote.envelopes) < MaxEnvelopes
  /\ remote' = [remote EXCEPT
                  !.envelopes = Append(@, Envelope(id, command, target))]
  /\ UNCHANGED <<clientVars, toolCall, console, waitFor, dom>>

Dispatch(e) ==
  /\ e \in DOMAIN remote.envelopes
  /\ remote.envelopes[e].status = "received"
  /\ remote' = dispatch(remote, e)
  /\ UNCHANGED <<clientVars, toolCall, console, waitFor, dom>>

Finish(e, ending) ==
  /\ e \in DOMAIN remote.envelopes
  /\ remote.envelopes[e].status = "running"
  /\ remote' = complete(remote, e, ending)
  /\ UNCHANGED <<clientVars, toolCall, console, waitFor, dom>>

\* the application opens a window: it comes last in the enumeration
WindowOpens(label) ==
  /\ label \notin Range(remote.windows)
  /\ remote' = [remote EXCEPT !.windows = Append(@, label)]
  /\ UNCHANGED <<clientVars, toolCall, console, waitFor, dom>>

\* a window is closed; a closed window holds no focus
WindowCloses(label) ==
  /\ label \in Range(remote.windows)
  /\ remote' = [remote EXCEPT
                  !.windows = SelectSeq(@, LAMBDA x : x # label),
                  !.focused = IF @ = label THEN NoFocus ELSE @]
  /\ UNCHANGED <<clientVars, toolCall, console, waitFor, dom>>

\* the focus moves to window f, or to no window of the application
FocusChanges(f) ==
  /\ f \in Range(remote.windows) \cup {NoFocus}
  /\ f # remote.focused
  /\ remote' = [remote EXCEPT !.focused = f]
  /\ UNCHANGED <<clientVars, toolCall, console, waitFor, dom>>

\* the peer closes the connection once all its envelopes are answered, and
\* connects again
PeerDisconnects ==
  /\ remote.connected
  /\ \A e \in DOMAIN remote.envelopes : remote.envelopes[e].status = "answered"
  /\ remote' = [remote EXCEPT !.connected = FALSE]
  /\ UNCHANGED <<clientVars, toolCall, console, waitFor, dom>>

PeerConnects ==
  /\ ~remote.connected
  /\ remote' = [remote EXCEPT !.connected = TRUE]
  /\ UNCHANGED <<clientVars, toolCall, console, waitFor, dom>>

NextRemote ==
  \/ \E id \in 1..MaxEnvelopeId, command \in RemoteCommands,
        target \in Targets \cup {NoTarget} : Receive(id, command, target)
  \/ \E e \in 1..MaxEnvelopes : Dispatch(e)
  \/ \E e \in 1..MaxEnvelopes, ending \in Endings : Finish(e, ending)
  \/ \E label \in Labels : WindowOpens(label)
  \/ \E label \in Labels : WindowCloses(label)
  \/ \E f \in Labels \cup {NoFocus} : FocusChanges(f)
  \/ PeerDisconnects
  \/ PeerConnects

SpecRemote == Init /\ [][NextRemote]_vars

\* ---------------------------------------------------------------------
\* The tool layer of the MCP server: the CallToolRequest handler of index.ts
\* and the tool handlers of tools.ts, on top of the client above.

\* tools.ts: the name of each tool that sends a command, the command it
\* sends and the text it throws for a failure response without error text
ToolTable ==
  {<<"tauri_screenshot", "screenshot", "Screenshot failed">>,
   <<"tauri_dom_snapshot", "dom_snapshot", "DOM snapshot failed">>,
   <<"tauri_execute_js", "execute_js", "JavaScript execution failed">>,
   <<"tauri_console_logs", "console_logs", "Failed to get console logs">>,
   <<"tauri_window_list", "window_list", "Failed to list windows">>,
   <<"tauri_window_info", "window_info", "Failed to get window info">>,
   <<"tauri_window_resize", "window_resize", "Failed to resize window">>,
   <<"tauri_interact", "interact", "Interaction failed">>,
   <<"tauri_wait_for", "wait_for", "Wait condition not met">>}

toolMap ==
  [name \in {t[1] : t \in ToolTable} |->
     LET t == CHOOSE x \in ToolTable : x[1] = name
     IN [command |-> t[2], fallback |-> t[3]]]

\* the tool names callers ask for; the last is the name of no tool
CalledNames == {"tauri_execute_js", "tauri_wait_for", "tauri_missing"}

\* the error texts a failure response may carry, or none
RemoteErrors ==
  {ErrorText("Window 'settings' not found. Available: main"), NoError}

NoActiveSession ==
  "No active session. Call tauri_session with action \"start\" first."

\* the message of the ZodError schema.parse throws
SchemaViolation == "ZodError"

\* how a handler ends: it returns a value or throws an Error with a message
Value(text) == [thrown |-> FALSE, text |-> text]
Thrown(text) == [thrown |-> TRUE, text |-> text]

\* what the CallToolRequest handler returns to the caller
NoResult == [isError |-> FALSE, text |-> <<>>]

CallToolResult(completion) ==
  IF completion.thrown
    THEN [isError |-> TRUE, text |-> <<"Error: ">> \o completion.text]
    ELSE [isError |-> FALSE, text |-> completion.text]

\* a tool handler that never passes the remote error text on
awaitedFallbackOnly(name, outcome) ==
  IF outcome.kind = "rejected" THEN Thrown(outcome.message)
  ELSE IF ~outcome.success THEN Thrown(<<toolMap[name].fallback>>)
  ELSE Value(outcome.data)

\* a tool handler after its await sendCommand(...): the promise rejected, or
\* resolved with a failure response or with the data
awaited(name, outcome) ==
  IF outcome.kind = "rejected" THEN Thrown(outcome.message)
  ELSE IF ~outcome.success
    THEN Thrown(<<IF outcome.remoteError.present
                    THEN outcome.remoteError.text
                    ELSE toolMap[name].fallback>>)
  ELSE Value(outcome.data)

\* a call the handler has answered, and a call that awaits request r;
\* connected and valid record what ensureSession and schema.parse found
ReturnedCall(w, name, valid, completion) ==
  [name |-> name, valid |-> valid, connected |-> isConnected(w),
   request |-> 0, phase |-> "returned", result |-> CallToolResult(completion)]

AwaitingCall(w, name, valid) ==
  [name |-> name, valid |-> valid, connected |-> isConnected(w),
   request |-> Len(w.requests) + 1, phase |-> "awaiting", result |-> NoResult]

\* a handler that parses its arguments before it calls ensureSession()
callToolParsesFirst(w, tc, name, valid) ==
  IF name \notin DOMAIN toolMap
    THEN [w |-> w,
          tc |-> [tc EXCEPT !.calls =
                    Append(@, ReturnedCall(w, name, valid,
                                Thrown(<<"Unknown tool: ", name>>)))]]
  ELSE IF ~valid
    THEN [w |-> w,
          tc |-> [tc EXCEPT !.calls =
                    Append(@, ReturnedCall(w, name, valid,
                                Thrown(<<SchemaViolation>>)))]]
  ELSE IF ~isConnected(w)
    THEN [w |-> w,
          tc |-> [tc EXCEPT !.calls =
                    Append(@, ReturnedCall(w, name, valid,
                                Thrown(<<NoActiveSession>>)))]]
  ELSE [w |-> sendCommand(w, toolMap[name].command, defaultTimeout),
        tc |-> [tc EXCEPT !.calls = Append(@, AwaitingCall(w, name, valid))]]

\* the CallToolRequest handler up to the await of the tool handler: the
\* tool is looked up, the handler calls ensureSession(), parses the
\* arguments and sends its command
callTool(w, tc, name, valid) ==
  IF name \notin DOMAIN toolMap
    THEN [w |-> w,
          tc |-> [tc EXCEPT !.calls =
                    Append(@, ReturnedCall(w, name, valid,
                                Thrown(<<"Unknown tool: ", name>>)))]]
  ELSE IF ~isConnected(w)
    THEN [w |-> w,
          tc |-> [tc EXCEPT !.calls =
                    Append(@, ReturnedCall(w, name, valid,
                                Thrown(<<NoActiveSession>>)))]]
  ELSE IF ~valid
    THEN [w |-> w,
          tc |-> [tc EXCEPT !.calls =
                    Append(@, ReturnedCall(w, name, valid,
                                Thrown(<<SchemaViolation>>)))]]
  ELSE [w |-> sendCommand(w, toolMap[name].command, defaultTimeout),
        tc |-> [tc EXCEPT !.calls = Append(@, AwaitingCall(w, name, valid))]]

\* the promise call c awaits has settled: the handler goes on and the
\* CallToolRequest handler returns
toolReturns(w, tc, c) ==
  [tc EXCEPT
     !.calls[c].phase = "returned",
     !.calls[c].result =
       CallToolResult(awaited(tc.calls[c].name,
                              w.requests[tc.calls[c].request].outcome))]

\* a caller calls the tool name; valid tells whether its arguments fit the
\* tool's schema
CallTool(name, valid) ==
  /\ Len(toolCall.calls) < MaxCalls
  /\ Len(requests) < MaxReq
  /\ Apply(callTool(World, toolCall, name, valid).w)
  /\ toolCall' = callTool(World, toolCall, name, valid).tc
  /\ UNCHANGED <<remoteUp, autoAttempts, remote, console, waitFor, dom>>

ToolReturns(c) ==
  /\ c \in DOMAIN toolCall.calls
  /\ toolCall.calls[c].phase = "awaiting"
  /\ requests[toolCall.calls[c].request].outcome.kind # "none"
  /\ toolCall' = toolReturns(World, toolCall, c)
  /\ UNCHANGED <<clientVars, remote, console, waitFor, dom>>

\* the socket request r was written to emits 'message' with a failure
\* response for it
MessageFailure(r, error) ==
  /\ r \in DOMAIN requests
  /\ requests[r].net = "sent"
  /\ requests[r].sock # 0
  /\ Apply(handleMessage([World EXCEPT !.requests[r].net = "answered"],
                         ErrorResponse(requests[r], error)))
  /\ UNCHANGED <<remoteUp, autoAttempts>>
  /\ UNCHANGED pluginVars

NextTools ==
  \/ \E name \in CalledNames, valid \in BOOLEAN : CallTool(name, valid)
  \/ \E c \in 1..MaxCalls : ToolReturns(c)
  \/ \E r \in 1..MaxReq : SendDone(r)
  \/ \E r \in 1..MaxReq : SendError(r)
  \/ \E r \in 1..MaxReq : Message(r)
  \/ \E r \in 1..MaxReq, error \in RemoteErrors : MessageFailure(r, error)
  \/ \E r \in 1..MaxReq : DeadlineTimeout(r)
  \/ \E s \in 1..MaxSockets : SocketLost(s)
  \/ \E s \in 1..MaxSockets : CloseEvent(s)
  \/ CallerDisconnect

SpecTools == InitAuto /\ [][NextTools]_vars

\* ---------------------------------------------------------------------
\* The tauri_session tool (session.ts). An optional argument is <<>> when
\* the caller omits it and <<v>> when the caller supplies v. The app name
\* shown is always "Tauri App" (sessionState.appName ?? "Tauri App").
\* startSession(host?, port?) up to its await of connect(): sock is the
\* socket whose handshake the call awaits
startSession(w, tc, host, port) ==
  LET targetHost == IF host = <<>> THEN "localhost" ELSE host[1]
      targetPort == IF port = <<>> THEN 9223 ELSE port[1]
      call == [action |-> "start", host |-> host, port |-> port,
               connected |-> isConnected(w), sock |-> 0,
               phase |-> "returned", result |-> NoResult]
  IN IF /\ isConnected(w)
        /\ (host = <<>> \/ host[1] = "" \/ host[1] = w.cs.host)
        /\ (port = <<>> \/ port[1] = 0 \/ port[1] = w.cs.port)
       THEN [w |-> w,
             tc |-> [tc EXCEPT !.calls =
                       Append(@, [call EXCEPT !.result =
                         Value(<<"Already connected to ", "Tauri App",
                                 w.cs.host, ToString(w.cs.port)>>)])]]
       ELSE LET w1 == connect(w, targetHost, targetPort)
            IN [w |-> w1,
                tc |-> [tc EXCEPT !.calls =
                          Append(@, [call EXCEPT !.sock = w1.cs.ws,
                                                 !.phase = "awaiting"])]]

\* the promise of connect() has settled: startSession returns or throws
sessionReturns(w, tc, c) ==
  LET call == tc.calls[c]
      targetHost == IF call.host = <<>> THEN "localhost" ELSE call.host[1]
      targetPort == IF call.port = <<>> THEN 9223 ELSE call.port[1]
  IN [tc EXCEPT
        !.calls[c].phase = "returned",
        !.calls[c].result =
          IF w.sockets[call.sock].connectPromise = "resolved"
            THEN Value(<<"Connected to ", "Tauri App", targetHost,
                         ToString(targetPort)>>)
            ELSE Thrown(<<"Failed to connect to Tauri app at ", targetHost,
                          ToString(targetPort), "error">>)]

\* stopSession()
stopSession(w, tc) ==
  LET call == [action |-> "stop", host |-> <<>>, port |-> <<>>,
               connected |-> isConnected(w), sock |-> 0,
               phase |-> "returned", result |-> NoResult]
  IN IF ~isConnected(w)
       THEN [w |-> w,
             tc |-> [tc EXCEPT !.calls =
                       Append(@, [call EXCEPT
                                    !.result = Value(<<"Not connected">>)])]]
       ELSE [w |-> disconnect(w),
             tc |-> [tc EXCEPT !.calls =
                       Append(@, [call EXCEPT
                                    !.result = Value(<<"Disconnected">>)])]]

\* a continuation of a settled promise runs before the next event or timer
\* callback: no start call is waiting for a promise that has settled
SessionQuiet ==
  \A c \in DOMAIN toolCall.calls :
    toolCall.calls[c].phase = "awaiting"
      => sockets[toolCall.calls[c].sock].connectPromise = "pending"

\* a caller calls tauri_session with action "start"
StartSession(host, port) ==
  /\ Len(toolCall.calls) < MaxCalls
  /\ FreeSocketSlots(World) # {}
  /\ Apply(startSession(World, toolCall, host, port).w)
  /\ toolCall' = startSession(World, toolCall, host, port).tc
  /\ autoAttempts' = 0
  /\ UNCHANGED <<remoteUp, remote, console, waitFor, dom>>

\* the await of connect() in the start call c ends
SessionReturns(c) ==
  /\ c \in DOMAIN toolCall.calls
  /\ toolCall.calls[c].phase = "awaiting"
  /\ sockets[toolCall.calls[c].sock].connectPromise # "pending"
  /\ toolCall' = sessionReturns(World, toolCall, c)
  /\ UNCHANGED <<clientVars, remote, console, waitFor, dom>>

\* a caller calls tauri_session with action "stop"
StopSession ==
  /\ Len(toolCall.calls) < MaxCalls
  /\ Apply(stopSession(World, toolCall).w)
  /\ toolCall' = stopSession(World, toolCall).tc
  /\ Chain(stopSession(World, toolCall).w, autoAttempts)
  /\ UNCHANGED <<remoteUp, remote, console, waitFor, dom>>

NextSession ==
  \/ \E c \in 1..MaxCalls : SessionReturns(c)
  \/ \E host \in {<<>>, <<"">>, <<"localhost">>, <<"127.0.0.1">>},
        port \in {<<>>, <<0>>, <<9223>>, <<9224>>} :
       SessionQuiet /\ StartSession(host, port)
  \/ SessionQuiet /\ StopSession
  \/ \E s \in 1..MaxSockets : SessionQuiet /\ SocketOpen(s)
  \/ \E s \in 1..MaxSockets : SessionQuiet /\ ConnectFail(s)
  \/ \E s \in 1..MaxSockets : SessionQuiet /\ SocketLost(s)
  \/ \E s \in 1..MaxSockets : SessionQuiet /\ CloseEvent(s)
  \/ \E t \in 1..MaxTimers : SessionQuiet /\ ReconnectTimer(t)
  \/ SessionQuiet /\ RemoteToggle

SpecSession == Init /\ [][NextSession]_vars

\* ---------------------------------------------------------------------
\* The console capture of a webview (console_capture.js): the wrapped
\* console methods push every call to the logs array.
maxEntries == 1000

\* the wrapped methods of console
Levels == {"log", "warn", "error", "debug", "info"}

\* a capture that makes room before the array is full
captureLogEarly(c, level) ==
  LET entry == [timestamp |-> Len(c.calls) + 1, level |-> level]
      pushed == Append(c.logs, entry)
  IN [logs |-> IF Len(pushed) >= maxEntries THEN Tail(pushed) ELSE pushed,
      calls |-> Append(c.calls, entry)]

\* captureLog(level, args): logs.push(entry), then logs.shift() if the
\* array has more than maxEntries entries; the clock is read as the number
\* of the call
captureLog(c, level) ==
  LET entry == [timestamp |-> Len(c.calls) + 1, level |-> level]
      pushed == Append(c.logs, entry)
  IN [logs |-> IF Len(pushed) > maxEntries THEN Tail(pushed) ELSE pushed,
      calls |-> Append(c.calls, entry)]

\* the page calls console.log, .warn, .error, .debug or .info; the first
\* VariedCalls calls are of any level, the later ones are console.log
ConsoleCall(level) ==
  /\ Len(console.calls) < MaxCaptured
  /\ Len(console.calls) >= VariedCalls => level = "log"
  /\ console' = captureLog(console, level)
  /\ UNCHANGED <<clientVars, remote, toolCall, waitFor, dom>>

NextConsole == \E level \in Levels : ConsoleCall(level)

SpecConsole == Init /\ [][NextConsole]_vars

\* ---------------------------------------------------------------------
\* A wait_for call in a webview (scripts/wait-for.js): the condition is
\* checked at once, and if it is not met a timer and a MutationObserver are
\* set up.
WaitTypes == {"selector", "text", "visible", "hidden", "bogus"}
WaitTimeouts == {Undefined, 1000}
Pages == [element : {"absent", "hidden", "visible"}, text : BOOLEAN]

\* checkCondition(conditionType, conditionValue) on the page as it is
checkCondition(type, page) ==
  CASE type = "selector" ->
         [satisfied |-> page.element # "absent", error |-> FALSE]
    [] type = "text" -> [satisfied |-> page.text, error |-> FALSE]
    [] type = "visible" ->
         [satisfied |-> page.element = "visible", error |-> FALSE]
    [] type = "hidden" ->
         [satisfied |-> page.element # "visible", error |-> FALSE]
    [] OTHER -> [satisfied |-> FALSE, error |-> TRUE]

\* getTimeoutMessage(conditionType, conditionValue, timeoutMs), as the
\* sequence of its parts
getTimeoutMessage(type, value, timeoutMs) ==
  <<"Timeout after ", ToString(timeoutMs), "ms waiting for ">> \o
  CASE type = "selector" -> <<"'", value, "' to appear">>
    [] type = "text" -> <<"text '", value, "' to appear">>
    [] type = "visible" -> <<"'", value, "' to become visible">>
    [] type = "hidden" -> <<"'", value, "' to disappear">>
    [] OTHER -> <<type, ": ", value>>

\* a call that sets up its timer and its observer without looking at the
\* page first
waitForCallAlwaysWaits(wf, type, value, timeout) ==
  LET call == [wf EXCEPT !.args = [type |-> type, value |-> value,
                                   timeout |-> timeout],
                         !.everSatisfied = checkCondition(type, wf.page).satisfied]
  IN IF type = ""
       THEN [call EXCEPT !.phase = "rejected",
                         !.message = <<"Missing 'type' argument.">>]
     ELSE IF value = ""
       THEN [call EXCEPT !.phase = "rejected",
                         !.message = <<"Missing 'value' argument.">>]
     ELSE [call EXCEPT !.phase = "waiting", !.timer = "armed",
                       !.observer = "observing"]

\* window.__tauriMcpWaitFor(args) up to the promise it returns
waitForCall(wf, type, value, timeout) ==
  LET call == [wf EXCEPT !.args = [type |-> type, value |-> value,
                                   timeout |-> timeout],
                         !.everSatisfied = checkCondition(type, wf.page).satisfied]
      immediate == checkCondition(type, wf.page)
  IN IF type = ""
       THEN [call EXCEPT !.phase = "rejected",
                         !.message = <<"Missing 'type' argument.">>]
     ELSE IF value = ""
       THEN [call EXCEPT !.phase = "rejected",
                         !.message = <<"Missing 'value' argument.">>]
     ELSE IF immediate.satisfied
       THEN [call EXCEPT !.phase = "resolved"]
     ELSE IF immediate.error
       THEN [call EXCEPT !.phase = "rejected",
                         !.message = <<"Unknown wait type '", type, "'.">>]
     ELSE [call EXCEPT !.phase = "waiting", !.timer = "armed",
                       !.observer = "observing"]

\* a timer callback that rejects and leaves the observer connected
onWaitTimeoutNoCleanup(wf) ==
  [wf EXCEPT
     !.phase = "rejected",
     !.timer = "cleared",
     !.message = getTimeoutMessage(wf.args.type, wf.args.value,
                   IF wf.args.timeout = Undefined THEN 5000
                   ELSE wf.args.timeout)]

\* the callback of setTimeout(..., timeout): cleanup(), then reject
onWaitTimeout(wf) ==
  [wf EXCEPT
     !.phase = "rejected",
     !.observer = "disconnected",
     !.timer = "cleared",
     !.message = getTimeoutMessage(wf.args.type, wf.args.value,
                   IF wf.args.timeout = Undefined THEN 5000
                   ELSE wf.args.timeout)]

\* the callback of the MutationObserver: cleanup() and resolve if the
\* condition is met now
onMutation(wf) ==
  IF checkCondition(wf.args.type, wf.page).satisfied
    THEN [wf EXCEPT !.phase = "resolved", !.observer = "disconnected",
                    !.timer = "cleared"]
    ELSE wf

\* the dispatcher runs the script with the arguments of a wait_for command
WaitForCall(type, value, timeout) ==
  /\ waitFor.phase = "idle"
  /\ waitFor' = waitForCall(waitFor, type, value, timeout)
  /\ UNCHANGED <<clientVars, remote, toolCall, console, dom>>

\* the page changes; if the change is a mutation of the document the
\* connected observer is called back, a change of style or layout alone
\* calls no observer
PageChanges(page, mutation) ==
  /\ page # waitFor.page
  /\ LET changed ==
           [waitFor EXCEPT
              !.page = page,
              !.everSatisfied =
                 @ \/ (waitFor.phase = "waiting"
                       /\ checkCondition(waitFor.args.type, page).satisfied)]
     IN waitFor' = IF mutation /\ waitFor.observer = "observing"
                     THEN onMutation(changed) ELSE changed
  /\ UNCHANGED <<clientVars, remote, toolCall, console, dom>>

\* the timer of the call fires
WaitTimerFires ==
  /\ waitFor.timer = "armed"
  /\ waitFor' = onWaitTimeout(waitFor)
  /\ UNCHANGED <<clientVars, remote, toolCall, console, dom>>

NextWaitFor ==
  \/ \E type \in WaitTypes \cup {""}, value \in {".loading", ""},
        timeout \in WaitTimeouts : WaitForCall(type, value, timeout)
  \/ \E page \in Pages, mutation \in BOOLEAN : PageChanges(page, mutation)
  \/ WaitTimerFires

\* an armed timer fires
SpecWaitFor == Init /\ [][NextWaitFor]_vars /\ WF_vars(WaitTimerFires)

\* ---------------------------------------------------------------------
\* A tauri_wait_for call followed in time: the condition (a selector that
\* never matches) does not come to hold, the webview answers with its
\* timeout failure when its timer fires and the client's deadline timer
\* runs next to it.
\* handleWaitFor: ensureSession(), parse, sendCommand("wait_for", {...,
\* timeout: timeout ?? 5000}) with no third argument; timeout is Undefined
\* when the caller omits it
handleWaitFor(w, tc, timeout) ==
  LET sent == [timeout |-> IF timeout = Undefined THEN 5000 ELSE timeout,
               sentAt |-> tc.now]
  IN IF ~isConnected(w)
       THEN [w |-> w,
             tc |-> [tc EXCEPT !.calls =
                       Append(@, ReturnedCall(w, "tauri_wait_for", TRUE,
                                   Thrown(<<NoActiveSession>>)) @@ sent)]]
       ELSE [w |-> sendCommand(w, toolMap["tauri_wait_for"].command,
                               defaultTimeout),
             tc |-> [tc EXCEPT !.calls =
                       Append(@, AwaitingCall(w, "tauri_wait_for", TRUE)
                                   @@ sent)]]

\* a caller calls tauri_wait_for with a timeout, or without one
WaitForToolCall(timeout) ==
  /\ Len(toolCall.calls) < MaxCalls
  /\ Len(requests) < MaxReq
  /\ Apply(handleWaitFor(World, toolCall, timeout).w)
  /\ toolCall' = handleWaitFor(World, toolCall, timeout).tc
  /\ UNCHANGED <<remoteUp, autoAttempts, remote, console, waitFor, dom>>

\* the times at which a timer of the webview (for a request it has
\* received) or a deadline timer of the client is due
DueTimes ==
  {toolCall.calls[c].sentAt + toolCall.calls[c].timeout :
     c \in {x \in DOMAIN toolCall.calls :
              /\ toolCall.calls[x].request # 0
              /\ requests[toolCall.calls[x].request].net = "sent"}}
  \cup
  {toolCall.calls[c].sentAt + requests[toolCall.calls[c].request].timeoutMs :
     c \in {x \in DOMAIN toolCall.calls :
              /\ toolCall.calls[x].request # 0
              /\ requests[toolCall.calls[x].request].timer}}

\* time passes up to the next moment a timer is due; writes to the socket
\* complete at once
TimePasses ==
  /\ \A r \in DOMAIN requests : requests[r].net # "sending"
  /\ DueTimes # {}
  /\ toolCall.now < MinOf(DueTimes)
  /\ toolCall' = [toolCall EXCEPT !.now = MinOf(DueTimes)]
  /\ UNCHANGED <<clientVars, remote, console, waitFor, dom>>

NextWaitCall ==
  \/ \E timeout \in {Undefined, 1000, 20000} : WaitForToolCall(timeout)
  \/ \E r \in 1..MaxReq : SendDone(r)
  \/ TimePasses
  \/ \E c \in DOMAIN toolCall.calls :
       /\ toolCall.calls[c].request # 0
       /\ toolCall.now >= toolCall.calls[c].sentAt + toolCall.calls[c].timeout
       /\ MessageFailure(toolCall.calls[c].request,
                         ErrorText(getTimeoutMessage("selector", ".loading",
                                                     toolCall.calls[c].timeout)))
  \/ \E c \in DOMAIN toolCall.calls :
       /\ toolCall.calls[c].request # 0
       /\ toolCall.now >= toolCall.calls[c].sentAt
                            + requests[toolCall.calls[c].request].timeoutMs
       /\ DeadlineTimeout(toolCall.calls[c].request)
  \/ \E c \in 1..MaxCalls : ToolReturns(c)

SpecWaitCall == InitAuto /\ [][NextWaitCall]_vars

\* ---------------------------------------------------------------------
\* The structure snapshot of a document (scripts/dom-snapshot.js).
\* Array.from(element.children): the branch, if it hangs here, comes before
\* the next spine element
children(d, element) ==
  IF element.kind = "spine"
    THEN (IF d.branch > 0 /\ d.at = element.n
            THEN <<[kind |-> "branch", n |-> 1]>> ELSE <<>>)
         \o (IF element.n < d.spine
               THEN <<[kind |-> "spine", n |-> element.n + 1]>> ELSE <<>>)
    ELSE IF element.n < d.branch
           THEN <<[kind |-> "branch", n |-> element.n + 1]>> ELSE <<>>

\* a formatter that stops one level earlier
RECURSIVE formatStructureTreeShallow(_, _, _, _, _)
formatStructureTreeShallow(d, element, prefix, isLast, depth) ==
  IF depth >= 20 THEN <<>>
  ELSE LET kids == children(d, element)
           childPrefix == IF depth = 0 THEN 0 ELSE prefix + 1
           childLines(i) ==
             IF i <= Len(kids)
               THEN formatStructureTreeShallow(d, kids[i], childPrefix,
                                               i = Len(kids), depth + 1)
               ELSE <<>>
       IN <<[node |-> element,
             prefix |-> IF depth = 0 THEN 0 ELSE prefix,
             connector |-> IF depth = 0 THEN ""
                           ELSE IF isLast THEN "+- " ELSE "|- "]>>
          \o childLines(1) \o childLines(2)

\* formatStructureTree(element, prefix, isLast, depth = 0): the lines of the
\* element and of its descendants; prefix counts the three-character units
\* of the prefix string
RECURSIVE formatStructureTree(_, _, _, _, _)
formatStructureTree(d, element, prefix, isLast, depth) ==
  IF depth > 20 THEN <<>>
  ELSE LET kids == children(d, element)
           childPrefix == IF depth = 0 THEN 0 ELSE prefix + 1
           childLines(i) ==
             IF i <= Len(kids)
               THEN formatStructureTree(d, kids[i], childPrefix,
                                        i = Len(kids), depth + 1)
               ELSE <<>>
       IN <<[node |-> element,
             prefix |-> IF depth = 0 THEN 0 ELSE prefix,
             connector |-> IF depth = 0 THEN ""
                           ELSE IF isLast THEN "+- " ELSE "|- "]>>
          \o childLines(1) \o childLines(2)

\* the page appends an element at the end of the spine or of the branch; a
\* branch starts at any spine element
AppendChild(kind, at) ==
  /\ \/ /\ kind = "spine"
        /\ dom.spine < MaxDepth
        /\ at = dom.at
        /\ dom' = [DomIdle EXCEPT !.spine = dom.spine + 1, !.at = dom.at,
                                  !.branch = dom.branch]
     \/ /\ kind = "branch"
        /\ dom.branch < MaxBranch
        /\ at \in 0..dom.spine
        /\ dom.branch > 0 => at = dom.at
        /\ dom' = [DomIdle EXCEPT !.spine = dom.spine, !.at = at,
                                  !.branch = dom.branch + 1]
  /\ UNCHANGED <<clientVars, remote, toolCall, console, waitFor>>

\* __tauriMcpDomSnapshot('structure') on document.body
TakeSnapshot ==
  /\ ~dom.taken
  /\ dom' = [dom EXCEPT
               !.taken = TRUE,
               !.lines = formatStructureTree(dom, [kind |-> "spine", n |-> 0],
                                             0, TRUE, 0)]
  /\ UNCHANGED <<clientVars, remote, toolCall, console, waitFor>>

NextDom ==
  \/ \E kind \in {"spine", "branch"}, at \in 0..MaxDepth : AppendChild(kind, at)
  \/ TakeSnapshot

SpecDom == Init /\ [][NextDom]_vars

TypeOK ==
  /\ clientState.ws \in 0..MaxSockets
  /\ Len(requests) <= MaxReq
  /\ autoAttempts \in 0..AttemptCap

Unsettled(r) == r \in DOMAIN requests /\ requests[r].outcome.kind = "none"

C2_EventuallyCompleted ==
  \A r \in 1..MaxReq : (r \in DOMAIN requests) ~> (~Unsettled(r))

\* both requests completed, one by its deadline and one by a close event
C2_Witness ==
  /\ \E r \in DOMAIN requests : requests[r].outcome.error = ErrTimeout
  /\ \E r \in DOMAIN requests :
       requests[r].outcome = Rejected(ErrConnectionClosed)

C4_EmptyWhenDisconnected ==
  (clientState.null \/ clientState.ws = 0)
    => /\ clientState.pendingRequests = {}
       /\ \A r \in DOMAIN requests : ~Unsettled(r)

\* handleClose has run on a session that had a pending request
C4_Witness ==
  /\ ~clientState.null
  /\ clientState.ws = 0
  /\ \E r \in DOMAIN requests :
       requests[r].outcome = Rejected(ErrConnectionClosed)

\* a close event of socket s that no close() call of the client caused
UnplannedClose(s) ==
  \/ CloseEvent(s) /\ ~sockets[s].planned
  \/ ConnectFail(s)

\* C5: the handling of an unplanned close rejects every request pending at
\* that moment with "Connection closed" and cancels its deadline timer.
C5_UnplannedLossRejectsAll ==
  [][\A s \in 1..MaxSockets :
       UnplannedClose(s)
         => \A r \in DOMAIN requests :
              Unsettled(r)
                => /\ requests'[r].outcome = Rejected(ErrConnectionClosed)
                   /\ ~requests'[r].timer]_vars

\* two simultaneous requests, both rejected with "Connection closed"
C5_Witness ==
  /\ Len(requests) >= 2
  /\ \A r \in 1..2 : requests[r].outcome = Rejected(ErrConnectionClosed)
  /\ \A r \in 1..2 : requests[r].net = "sending"

\* C6: disconnect() called by the caller rejects every request pending at
\* that moment with "Disconnected", never with "Connection closed".
C6_DisconnectRejectsWithDisconnected ==
  [][CallerDisconnect
       => \A r \in DOMAIN requests :
            Unsettled(r)
              => /\ requests'[r].outcome = Rejected(ErrDisconnected)
                 /\ ~requests'[r].timer]_vars

\* two simultaneous requests, both rejected with "Disconnected"
C6_Witness ==
  /\ Len(requests) >= 2
  /\ \A r \in 1..2 : requests[r].outcome = Rejected(ErrDisconnected)

\* C7: once disconnect() has dropped the client state, only a connect() of
\* the caller brings it back: no timer and no socket event creates a socket
\* or a client state.
C7_NoReconnectAfterDisconnect ==
  [][clientState.null
       => \/ \E host \in Hosts, port \in Ports : CallerConnect(host, port)
          \/ /\ clientState'.null
             /\ \A s \in 1..MaxSockets :
                  sockets'[s].readyState \in {"CONNECTING", "OPEN"}
                    => sockets[s].readyState \in {"CONNECTING", "OPEN"}]_vars

\* disconnect() has run while a reconnect timer it could not cancel is still
\* armed and the closed socket has not emitted 'close' yet
C7_Witness ==
  /\ clientState.null
  /\ \E t \in 1..MaxTimers : reconnectTimers[t].armed
  /\ \E s \in 1..MaxSockets :
       sockets[s].readyState = "CLOSING" /\ sockets[s].planned

\* C8: at most maxReconnectAttempts consecutive automatic reconnection
\* attempts are started while the remote stays unreachable, and the attempt
\* counter never exceeds the bound.
C8_AtMostThreeAttempts ==
  /\ autoAttempts <= maxReconnectAttempts
  /\ clientState.reconnectAttempts <= maxReconnectAttempts

\* C9: the reconnect timer that starts the k-th consecutive automatic
\* attempt since the session was last Open is armed with k * reconnectDelayMs.
C9_LinearBackoff ==
  \A t \in 1..MaxTimers :
    (reconnectTimers[t].armed /\ autoAttempts < maxReconnectAttempts)
      => reconnectTimers[t].delay = reconnectDelayMs * (autoAttempts + 1)

\* C10: a session that lost its connection, with attempts left, returns to
\* Open without any caller action as long as the remote stays reachable.
C10_ReturnsToOpen ==
  (/\ ~clientState.null
   /\ ~isConnected(World)
   /\ remoteUp
   /\ autoAttempts < maxReconnectAttempts)
    ~> (~remoteUp \/ isConnected(World))

\* the first request was failed by the loss; the second one was sent on the
\* socket of the automatic reconnection and resolved with its response
C10_Witness ==
  /\ Len(requests) >= 2
  /\ requests[1].outcome = Rejected(ErrConnectionClosed)
  /\ requests[1].sock = 0
  /\ requests[2].outcome.kind = "resolved"
  /\ requests[2].sock # 0
  /\ isConnected(World)

\* C11: a probe whose acknowledgment has not arrived by the next keep-alive
\* tick makes the session treat the connection as lost: the session is no
\* longer Open on that socket and no request is left pending on it.
C11_UnackedProbeMeansLost ==
  \A s \in 1..MaxSockets :
    sockets[s].probe = "missed"
      => /\ ~(isConnected(World) /\ clientState.ws = s)
         /\ \A r \in DOMAIN requests : requests[r].sock = s => ~Unsettled(r)

\* C12 (as stated): a failed send on an Open session is handled like an
\* unexpected close: the session drops its socket and a reconnection is
\* scheduled.
C12_SendErrorTriggersReconnect ==
  [][\A r \in 1..MaxReq :
       (SendError(r) /\ isConnected(World) /\ WillReconnect(World))
         => /\ clientState'.ws = 0
            /\ \E t \in 1..MaxTimers : reconnectTimers'[t].armed]_vars

\* C12 (amended): a failed send fails the request being sent and nothing
\* else: the session keeps its socket, its keep-alive interval and its
\* reconnect counter, no socket changes state and no reconnect timer is armed
\* or cancelled.
C12_SendErrorLeavesConnection ==
  [][\A r \in 1..MaxReq :
       SendError(r)
         => /\ clientState' =
                 [clientState EXCEPT !.pendingRequests = @ \ {r}]
            /\ sockets' = sockets
            /\ reconnectTimers' = reconnectTimers
            /\ pingIntervals' = pingIntervals
            /\ Unsettled(r) => requests'[r].outcome = Rejected(ErrSend)]_vars

\* a request failed by its send error on a session that is still Open on
\* the socket the request was written to, with no reconnection scheduled
C12_Witness ==
  /\ isConnected(World)
  /\ \A t \in 1..MaxTimers : ~reconnectTimers[t].armed
  /\ \E r \in DOMAIN requests :
       /\ requests[r].outcome = Rejected(ErrSend)
       /\ requests[r].sock = clientState.ws

\* C13: connect(host, port) on a session that is Open to that host and port
\* changes nothing: the client state (socket, pending map, keep-alive
\* interval, reconnect counter), the sockets, the requests and their timers
\* and the reconnect timers after the call are those before it, so any number
\* of repeated calls changes nothing either.
C13_ReuseIsNoOp ==
  \A host \in Hosts, port \in Ports :
    (/\ ~clientState.null
     /\ clientState.ws # 0
     /\ sockets[clientState.ws].readyState = "OPEN"
     /\ clientState.host = host
     /\ clientState.port = port)
      => /\ connect(World, host, port) = World
         /\ connect(connect(World, host, port), host, port) = World

\* an Open session with a request pending, its deadline timer and the
\* keep-alive interval armed, on which connect() to the same endpoint is
\* called
C13_Witness ==
  /\ isConnected(World)
  /\ clientState.pingInterval # 0
  /\ \E r \in clientState.pendingRequests : requests[r].timer
  /\ ENABLED CallerConnect(clientState.host, clientState.port)

\* the sockets the client has created that are connecting or open
LiveSockets == {s \in 1..MaxSockets :
                  sockets[s].readyState \in {"CONNECTING", "OPEN"}}

\* C14: the client owns at most one socket that is connecting or open,
\* after any sequence of connect(), disconnect(), automatic reconnection
\* attempts and close events.
C14_AtMostOneLiveSocket == Cardinality(LiveSockets) <= 1

\* C15: sendCommand on a session that is not Open (no client state, no
\* socket, or a socket that is connecting or closing) rejects with
\* "Not connected", writes nothing, registers no pending entry and arms no
\* timer; the client state, the sockets, the timers and the requests made
\* before are unchanged.
C15_NotConnectedChangesNothing ==
  [][\A command \in Commands, timeoutMs \in Timeouts :
       (/\ \/ clientState.null
           \/ clientState.ws = 0
           \/ sockets[clientState.ws].readyState # "OPEN"
        /\ \/ SendCommand(command, timeoutMs)
           \/ SendCommandNotConnected(command, timeoutMs))
         => /\ clientState' = clientState
            /\ sockets' = sockets
            /\ reconnectTimers' = reconnectTimers
            /\ pingIntervals' = pingIntervals
            /\ Len(requests') = Len(requests) + 1
            /\ SubSeq(requests', 1, Len(requests)) = requests
            /\ LET req == requests'[Len(requests')]
               IN /\ req.outcome = Rejected(ErrNotConnected)
                  /\ req.writes = 0
                  /\ ~req.timer]_vars

\* the latest sendCommand was rejected with "Not connected"; the session has
\* no socket and waits for its reconnect timer
C15_Witness ==
  /\ Len(requests) >= 1
  /\ requests[Len(requests)].outcome = Rejected(ErrNotConnected)
  /\ ~clientState.null
  /\ clientState.ws = 0
  /\ clientState.reconnectTimeout # 0
  /\ clientState.pendingRequests = {}

MessageParts(r) ==
  {requests[r].outcome.message[i] : i \in DOMAIN requests[r].outcome.message}

\* C17 (as stated): the error of a request rejected by its deadline carries
\* the request's timeout and the request's command name.
C17_TimeoutCarriesDurationAndCommand ==
  \A r \in DOMAIN requests :
    requests[r].outcome.error = ErrTimeout
      => /\ ToString(requests[r].timeoutMs) \in MessageParts(r)
         /\ requests[r].command \in MessageParts(r)

\* C17 (amended): the error of a request rejected by its deadline is
\* "Request timed out after <timeoutMs>ms" with the request's own timeout;
\* it does not name the command.
C17_TimeoutCarriesDuration ==
  \A r \in DOMAIN requests :
    requests[r].outcome.error = ErrTimeout
      => /\ requests[r].outcome.message =
              <<"Request timed out after ", ToString(requests[r].timeoutMs),
                "ms">>
         /\ requests[r].command \notin MessageParts(r)

\* two requests with different commands and different timeouts, both
\* rejected by their deadlines
C17_Witness ==
  /\ Len(requests) >= 2
  /\ \A r \in 1..2 : requests[r].outcome.error = ErrTimeout
  /\ requests[1].timeoutMs # requests[2].timeoutMs
  /\ requests[1].command # requests[2].command

\* C18: an inbound message that matches no pending request (text that is
\* not JSON, an envelope without an id or with a foreign id, a duplicate of a
\* response delivered before, the response of a request that is no longer
\* pending) completes no request and changes neither the pending map, nor
\* any timer, nor the connection.
C18_UnmatchedMessageDropped ==
  [][(\/ \E s \in 1..MaxSockets :
          \E data \in {Garbage, NoIdEnvelope, ForeignEnvelope}
                        \cup Duplicates(World, s) : StrayMessage(s, data)
      \/ \E r \in 1..MaxReq :
          Message(r) /\ r \notin clientState.pendingRequests)
       => /\ clientState' = clientState
          /\ sockets' = sockets
          /\ reconnectTimers' = reconnectTimers
          /\ pingIntervals' = pingIntervals
          /\ \A r \in DOMAIN requests :
               /\ requests'[r].outcome = requests[r].outcome
               /\ requests'[r].completions = requests[r].completions
               /\ requests'[r].timer = requests[r].timer]_vars

\* the response of a request arrived after the request had timed out, while
\* another request is pending on the Open session
C18_Witness ==
  /\ isConnected(World)
  /\ \E r, q \in DOMAIN requests :
       /\ requests[r].outcome.error = ErrTimeout
       /\ requests[r].net = "answered"
       /\ requests[r].sock = clientState.ws
       /\ Unsettled(q)
       /\ requests[q].timer

\* C19: whenever isConnected() is false, no request is pending.
C19_NotConnectedMeansNothingPending ==
  ~isConnected(World)
    => /\ clientState.pendingRequests = {}
       /\ \A r \in DOMAIN requests : ~Unsettled(r)

\* C20: the envelope of a request is written at most once, and a request
\* failed by the loss of its connection stays failed: it is not written
\* again, not registered again and has no timer, whatever reconnections
\* follow.
C20_WrittenAtMostOnce ==
  \A r \in DOMAIN requests :
    /\ requests[r].writes <= 1
    /\ requests[r].outcome.error = ErrConnectionClosed
         => /\ r \notin clientState.pendingRequests
            /\ ~requests[r].timer

\* a request in flight was failed by the loss of its connection, whose
\* socket is gone, and the session is Open again on a later socket
C20_Witness ==
  /\ isConnected(World)
  /\ sockets[clientState.ws].connectPromise = "resolved"
  /\ \E r \in DOMAIN requests :
       /\ requests[r].outcome = Rejected(ErrConnectionClosed)
       /\ requests[r].writes = 1
       /\ requests[r].sock = 0

\* C21: no two requests registered at the same time share an id, and
\* registering a request never replaces the entry of another one: every
\* request whose deadline timer is armed still has its entry in the map.
C21_PendingIdsDistinct ==
  /\ \A r, q \in DOMAIN requests :
       (r # q /\ requests[r].timer /\ requests[q].timer)
         => requests[r].id # requests[q].id
  /\ \A r \in DOMAIN requests :
       requests[r].timer => r \in clientState.pendingRequests

\* C22: when the socket of a connect() call of the caller fails before it
\* ever opened, no reconnect timer is scheduled: automatic reconnection
\* starts only from the loss of a connection that had been Open.
C22_NoReconnectAfterFailedConnect ==
  [][\A s \in 1..MaxSockets :
       (/\ ConnectFail(s)
        /\ ~clientState.null
        /\ clientState.ws = s
        /\ autoAttempts = 0
        /\ \A t \in 1..MaxTimers : ~reconnectTimers[t].armed)
         => \A t \in 1..MaxTimers : ~reconnectTimers'[t].armed]_vars

\* C23: a close or message event of a socket that is not the socket of the
\* current connection leaves the current connection alone: its client state
\* (socket, pending map, keep-alive interval, reconnect counter and timer),
\* its requests' outcomes and timers, the keep-alive intervals and the
\* reconnect timers are unchanged.
C23_StaleEventsIgnored ==
  [][(/\ ~clientState.null
      /\ clientState.ws # 0
      /\ \/ \E s \in 1..MaxSockets : CloseEvent(s) /\ clientState.ws # s
         \/ \E r \in 1..MaxReq :
              Message(r) /\ requests[r].sock # clientState.ws)
       => /\ clientState' = clientState
          /\ reconnectTimers' = reconnectTimers
          /\ pingIntervals' = pingIntervals
          /\ \A r \in DOMAIN requests :
               /\ requests'[r].outcome = requests[r].outcome
               /\ requests'[r].timer = requests[r].timer]_vars
\* ---------------------------------------------------------------------
\* C24: for every inbound request envelope the remote dispatcher emits
\* exactly one response envelope, and that response carries the request's own
\* id, also when the target could not be resolved or the command failed: an
\* envelope has no response while it waits or runs, and exactly one once it
\* was refused or its command ended.
ResponsesTo(e) ==
  {i \in DOMAIN remote.outbox : remote.outbox[i].envelope = e}

C24_OneResponseWithOwnId ==
  \A e \in DOMAIN remote.envelopes :
    /\ Cardinality(ResponsesTo(e)) =
         IF remote.envelopes[e].status = "answered" THEN 1 ELSE 0
    /\ \A i \in ResponsesTo(e) :
         remote.outbox[i].id = remote.envelopes[e].id

\* two envelopes with the same id were answered, one because its target did
\* not resolve and one because its command raised an error
C24_Witness ==
  /\ Len(remote.envelopes) = 2
  /\ remote.envelopes[1].id = remote.envelopes[2].id
  /\ \E i, j \in DOMAIN remote.outbox :
       /\ ~remote.outbox[i].success /\ ~remote.envelopes[remote.outbox[i].envelope].executed
       /\ ~remote.outbox[j].success /\ remote.envelopes[remote.outbox[j].envelope].executed

\* the response written last
LastResponse(rm) == rm.outbox[Len(rm.outbox)]

\* ---------------------------------------------------------------------
\* C25: a command sent with an explicit target that is not among the
\* contexts available when it is dispatched is not executed and is answered
\* with success=false, not a timeout, and an error text that names the
\* requested target and contains every target available at that moment.
C25_UnknownTargetRefused ==
  [][\A e \in 1..MaxEnvelopes :
       (/\ Dispatch(e)
        /\ remote.envelopes[e].target # NoTarget
        /\ remote.envelopes[e].target \notin Range(remote.windows))
       => /\ ~remote'.envelopes[e].executed
          /\ remote'.envelopes[e].status = "answered"
          /\ Len(remote'.outbox) = Len(remote.outbox) + 1
          /\ LastResponse(remote').envelope = e
          /\ ~LastResponse(remote').success
          /\ LastResponse(remote').error[1] # "Request timed out after "
          /\ remote.envelopes[e].target \in Range(LastResponse(remote').error)
          /\ Range(remote.windows) \subseteq Range(LastResponse(remote').error)
    ]_vars

\* an envelope for a window that does not exist was refused while two
\* windows existed, one of them opened after the dispatcher started
C25_Witness ==
  \E i \in DOMAIN remote.outbox :
    /\ ~remote.outbox[i].success
    /\ ~remote.envelopes[remote.outbox[i].envelope].executed
    /\ remote.envelopes[remote.outbox[i].envelope].target = "settings"
    /\ {"main", "about"} \subseteq Range(remote.outbox[i].error)

\* ---------------------------------------------------------------------
\* C26: resolution with no requested id gives the focused context if one is
\* designated, otherwise the first available context in enumeration order,
\* and fails with "no targets available" when no context is available; it
\* never succeeds against zero contexts.
C26_DefaultTarget ==
  [][\A e \in 1..MaxEnvelopes :
       (Dispatch(e) /\ remote.envelopes[e].target = NoTarget)
       => IF Len(remote.windows) = 0
            THEN /\ ~remote'.envelopes[e].executed
                 /\ remote'.envelopes[e].status = "answered"
                 /\ LastResponse(remote').envelope = e
                 /\ ~LastResponse(remote').success
                 /\ LastResponse(remote').error = <<"no targets available">>
            ELSE /\ remote'.envelopes[e].executed
                 /\ remote'.envelopes[e].status = "running"
                 /\ remote'.envelopes[e].window =
                      IF remote.focused # NoFocus THEN remote.focused
                      ELSE remote.windows[1]
    ]_vars

\* of two envelopes without a window id one was refused for want of any
\* window and the other runs in the focused window, which is not the first
\* of the enumeration
C26_Witness ==
  /\ Len(remote.envelopes) = 2
  /\ remote.envelopes[1].target = NoTarget
  /\ remote.envelopes[2].target = NoTarget
  /\ remote.envelopes[1].status = "answered"
  /\ ~remote.envelopes[1].executed
  /\ remote.envelopes[2].status = "running"
  /\ Len(remote.windows) = 2
  /\ remote.focused = remote.windows[2]
  /\ remote.envelopes[2].window = remote.windows[2]

\* ---------------------------------------------------------------------
\* C27: a command that raises an error on the remote side is answered with
\* success=false and the error's message, the connection stays open, and
\* the other envelopes, waiting or running, are left as they were, so that
\* they and every later envelope are answered as usual.
C27_FailureStaysLocal ==
  [][\A e \in 1..MaxEnvelopes, ending \in Endings :
       (Finish(e, ending) /\ ending.raised)
       => /\ Len(remote'.outbox) = Len(remote.outbox) + 1
          /\ SubSeq(remote'.outbox, 1, Len(remote.outbox)) = remote.outbox
          /\ LastResponse(remote').envelope = e
          /\ LastResponse(remote').id = remote.envelopes[e].id
          /\ ~LastResponse(remote').success
          /\ LastResponse(remote').error = <<ending.text>>
          /\ remote'.connected
          /\ remote'.windows = remote.windows
          /\ \A x \in DOMAIN remote.envelopes \ {e} :
               remote'.envelopes[x] = remote.envelopes[x]
    ]_vars

\* the command of the first envelope raised an error, and the second
\* envelope was answered with success after that
C27_Witness ==
  /\ Len(remote.outbox) = 2
  /\ remote.outbox[1].envelope = 1
  /\ remote.envelopes[1].executed
  /\ ~remote.outbox[1].success
  /\ remote.outbox[2].envelope = 2
  /\ remote.outbox[2].success
  /\ remote.connected

\* ---------------------------------------------------------------------
\* C28: no error of a tool call crashes the server: an unknown tool name,
\* an argument-schema violation, a missing session, a request timeout, a
\* connection loss or a remote success=false response is returned to the
\* caller as a result with isError=true and the text "Error: <message>"
\* (with the remote error text verbatim when the remote supplied one), and
\* the server goes on serving calls.
CallError(call) ==
  IF call.request = 0
    THEN IF call.name \notin DOMAIN toolMap
           THEN <<"Unknown tool: ", call.name>>
         ELSE IF ~call.connected THEN <<NoActiveSession>>
         ELSE <<SchemaViolation>>
  ELSE LET outcome == requests[call.request].outcome
       IN IF outcome.kind = "rejected" THEN outcome.message
          ELSE IF outcome.remoteError.present THEN <<outcome.remoteError.text>>
          ELSE <<toolMap[call.name].fallback>>

CallFailed(call) ==
  \/ call.request = 0
  \/ requests[call.request].outcome.kind = "rejected"
  \/ ~requests[call.request].outcome.success

C28_ErrorsAreResults ==
  /\ \A c \in DOMAIN toolCall.calls :
       LET call == toolCall.calls[c]
       IN /\ call.request = 0 => call.phase = "returned"
          /\ call.request = 0 =>
               (call.name \notin DOMAIN toolMap \/ ~call.connected \/ ~call.valid)
          /\ call.phase = "returned" =>
               IF CallFailed(call)
                 THEN /\ call.result.isError
                      /\ call.result.text = <<"Error: ">> \o CallError(call)
                 ELSE ~call.result.isError
  /\ Len(toolCall.calls) < MaxCalls =>
       \A name \in CalledNames, valid \in BOOLEAN : ENABLED CallTool(name, valid)

\* the first call was answered with the error text of the remote side, and
\* the call made after it was answered with its data
C28_Witness ==
  /\ Len(toolCall.calls) = 2
  /\ toolCall.calls[1].phase = "returned"
  /\ toolCall.calls[1].result.isError
  /\ toolCall.calls[1].request # 0
  /\ requests[toolCall.calls[1].request].outcome.remoteError.present
  /\ toolCall.calls[2].phase = "returned"
  /\ ~toolCall.calls[2].result.isError
  /\ requests[toolCall.calls[2].request].net = "answered"

\* ---------------------------------------------------------------------
\* C29: the console capture buffer never holds more than 1000 entries:
\* after any sequence of n console calls it holds exactly the most recent
\* min(n, 1000) entries in the order of capture, the oldest entry having
\* been evicted first.
C29_MostRecentThousand ==
  LET n == Len(console.calls)
      kept == IF n < 1000 THEN n ELSE 1000
  IN /\ Len(console.logs) <= 1000
     /\ console.logs = SubSeq(console.calls, n - kept + 1, n)

\* more than 1000 calls were captured: the first entries are gone
C29_Witness ==
  /\ Len(console.calls) = 1002
  /\ console.logs[1] = console.calls[3]
  /\ console.calls[1].level # "log"

ConditionHolds(type, page) ==
  \/ type = "selector" /\ page.element \in {"hidden", "visible"}
  \/ type = "text" /\ page.text
  \/ type = "visible" /\ page.element = "visible"
  \/ type = "hidden" /\ page.element \in {"absent", "hidden"}

C31_ImmediateAnswer ==
  [][\A type \in WaitTypes, timeout \in WaitTimeouts :
       WaitForCall(type, ".loading", timeout)
       => /\ ConditionHolds(type, waitFor.page)
               => /\ waitFor'.phase = "resolved"
                  /\ waitFor'.observer = "none"
                  /\ waitFor'.timer = "none"
          /\ type \notin {"selector", "text", "visible", "hidden"}
               => /\ waitFor'.phase = "rejected"
                  /\ waitFor'.observer = "none"
                  /\ waitFor'.timer = "none"
                  /\ waitFor'.message[1] = "Unknown wait type '"
    ]_vars

\* a call for a visible element was made while the element was visible: it
\* has resolved and no timer and no observer exist
C31_Witness ==
  /\ waitFor.phase = "resolved"
  /\ waitFor.args.type = "visible"
  /\ waitFor.args.timeout = 1000
  /\ waitFor.observer = "none"
  /\ waitFor.timer = "none"

\* ---------------------------------------------------------------------
\* C32: a structure snapshot contains at most 20 levels of nesting: for
\* every element tree the elements deeper than the 20th level are omitted
\* from the output and all elements within the first 20 levels are present.
\* The level of an element is the number of its ancestors in the snapshot:
\* the root is nested in nothing, its children are the first level.
DomElements ==
  {[kind |-> "spine", n |-> n] : n \in 0..dom.spine}
    \cup {[kind |-> "branch", n |-> n] : n \in 1..dom.branch}

NestingLevel(element) ==
  IF element.kind = "spine" THEN element.n ELSE dom.at + element.n

C32_TwentyLevels ==
  dom.taken =>
    /\ {dom.lines[i].node : i \in DOMAIN dom.lines} =
         {element \in DomElements : NestingLevel(element) <= 20}
    /\ Len(dom.lines) =
         Cardinality({element \in DomElements : NestingLevel(element) <= 20})

\* a snapshot of a document whose spine is nested 22 levels deep, with a
\* branch hanging from the element on level 20
C32_Witness ==
  /\ dom.taken
  /\ dom.spine = 22
  /\ dom.at = 20
  /\ dom.branch = 2
  /\ Len(dom.lines) = 21

\* ---------------------------------------------------------------------
\* C33: after stopSession() has returned, whatever it returned and in
\* whatever connection state it was called, no reconnect timer is pending
\* and the session is not connected again until the next startSession().
LastCall == toolCall.calls[Len(toolCall.calls)]

C33_StopIsFinal ==
  (Len(toolCall.calls) > 0 /\ LastCall.action = "stop")
    => /\ \A t \in 1..MaxTimers : ~reconnectTimers[t].armed
       /\ ~isConnected(World)

\* ---------------------------------------------------------------------
\* C34: startSession(host?, port?) called while connected returns
\* "Already connected ..." and leaves the connection untouched exactly when
\* every supplied argument equals the current endpoint (an omitted argument
\* matches any value); otherwise it tears the existing connection down and
\* connects to (host ?? "localhost", port ?? 9223), and when that fails it
\* throws "Failed to connect to Tauri app at <host>:<port>: ...".
C34_StartWhileConnected ==
  [][/\ \A host \in {<<>>, <<"">>, <<"localhost">>, <<"127.0.0.1">>},
           port \in {<<>>, <<0>>, <<9223>>, <<9224>>} :
         (StartSession(host, port) /\ isConnected(World)) =>
           LET call == toolCall'.calls[Len(toolCall'.calls)]
               targetHost == IF host = <<>> THEN "localhost" ELSE host[1]
               targetPort == IF port = <<>> THEN 9223 ELSE port[1]
           IN IF /\ (host = <<>> \/ host[1] = clientState.host)
                 /\ (port = <<>> \/ port[1] = clientState.port)
                THEN /\ call.phase = "returned"
                     /\ call.result =
                          Value(<<"Already connected to ", "Tauri App",
                                  clientState.host,
                                  ToString(clientState.port)>>)
                     /\ UNCHANGED clientVars
                ELSE /\ sockets'[clientState.ws].readyState = "CLOSING"
                     /\ sockets'[clientState.ws].planned
                     /\ clientState'.ws # clientState.ws
                     /\ sockets'[clientState'.ws].readyState = "CONNECTING"
                     /\ sockets'[clientState'.ws].host = targetHost
                     /\ sockets'[clientState'.ws].port = targetPort
                     /\ clientState'.host = targetHost
                     /\ clientState'.port = targetPort
                     /\ call.phase = "awaiting"
     /\ \A c \in 1..MaxCalls :
         (SessionReturns(c) /\ toolCall.calls[c].connected
            /\ sockets[toolCall.calls[c].sock].connectPromise # "resolved") =>
           LET call == toolCall.calls[c]
           IN toolCall'.calls[c].result =
                Thrown(<<"Failed to connect to Tauri app at ",
                         IF call.host = <<>> THEN "localhost" ELSE call.host[1],
                         ToString(IF call.port = <<>> THEN 9223
                                  ELSE call.port[1]),
                         "error">>)]_vars

\* ---------------------------------------------------------------------
\* C35: a call of any tool other than tauri_session made while the session
\* is not connected fails with "No active session. ..." whether or not its
\* arguments fit the schema, and sends no request.
C35_SessionCheckedFirst ==
  [][\A name \in CalledNames \cap DOMAIN toolMap, valid \in BOOLEAN :
       (CallTool(name, valid) /\ ~isConnected(World)) =>
         LET call == toolCall'.calls[Len(toolCall'.calls)]
         IN /\ call.phase = "returned"
            /\ call.request = 0
            /\ call.result = [isError |-> TRUE,
                               text |-> <<"Error: ", NoActiveSession>>]
            /\ UNCHANGED clientVars]_vars

\* a call with arguments that do not fit the schema, made while the session
\* was not connected, was answered with the session error
C35_Witness ==
  \E c \in DOMAIN toolCall.calls :
    /\ toolCall.calls[c].name = "tauri_wait_for"
    /\ ~toolCall.calls[c].valid
    /\ ~toolCall.calls[c].connected
    /\ toolCall.calls[c].phase = "returned"
    /\ toolCall.calls[c].result.text = <<"Error: ", NoActiveSession>>
    /\ Len(requests) = 0

C38_OneRecordedReconnectTimer ==
  /\ Cardinality({t \in 1..MaxTimers : reconnectTimers[t].armed}) <= 1
  /\ \A t \in 1..MaxTimers :
       reconnectTimers[t].armed
         => /\ ~isConnected(World)
            /\ ~clientState.null
            /\ clientState.reconnectTimeout = t

\* ---------------------------------------------------------------------
\* C39: for tauri_wait_for with any timeout T, the deadline the transport
\* applies to the request is never shorter than T, and a condition that
\* never holds is reported to the caller as the webview's failure "Timeout
\* after T ms waiting for ...", never as the transport's "Request timed
\* out" rejection.
C39_WaitTimeoutFromRemote ==
  \A c \in DOMAIN toolCall.calls :
    (toolCall.calls[c].name = "tauri_wait_for" /\ toolCall.calls[c].request # 0)
      => /\ requests[toolCall.calls[c].request].timeoutMs
              >= toolCall.calls[c].timeout
         /\ toolCall.calls[c].phase = "returned"
              => toolCall.calls[c].result =
                   [isError |-> TRUE,
                    text |-> <<"Error: ",
                               getTimeoutMessage("selector", ".loading",
                                                 toolCall.calls[c].timeout)>>]

====
